---- MODULE Spec2Model ----
(***************************************************************************)
(* Model of the controller-side discovery engine of hc-homie5:             *)
(* DeviceStore (device_store.rs), PropertyValueStore                       *)
(* (property_value_store.rs), AlertStore (alert_store.rs) and              *)
(* HomieDiscovery::handle_event (discovery.rs).                            *)
(*                                                                         *)
(* handle_event takes `&mut DeviceStore`, so one call runs to completion   *)
(* before the next one starts: each call is one atomic step.  The calls it *)
(* makes on the MQTT client are recorded, in order, in `calls`.            *)
(* The wall-clock fields of PropertyValueEntry (value_last_received, ...)  *)
(* are not part of the model.                                              *)
(*                                                                         *)
(* The queries (query.rs), conditions (value_condition/), value mappings   *)
(* (value_mapping.rs) and the tokio helpers (debounced_sender.rs,          *)
(* delayed_sender.rs, event_multiplexer.rs) each have a specification of   *)
(* their own over their own variables.  In the helpers a poll of a task is *)
(* one step: the task runs until it has to wait; a clock counts ticks, and *)
(* time may pass between the wake-up of a task and its poll.               *)
(***************************************************************************)
EXTENDS Integers, Sequences, FiniteSets, TLC

\* ---------------------------------------------------------------- bounds
NumDevices == 2
MaxSteps == 4
MaxTrackedSteps == 3  \* handle_event calls with the subscriptions on record
NumHierDevices == 2   \* devices of the homie domain in the hierarchy store
MaxMappings == 2      \* mappings of a ValueMappingList
MaxOperands == 2      \* values of a ValueSet::Multiple
MaxSends == 3         \* DebouncedSender::send calls
MaxTime == 6          \* ticks of the clock
DebounceDuration == 2 \* debounce_duration, in ticks
MaxSchedules == 2     \* DelayedSender::schedule calls
MaxDelay == 2         \* longest delay of a schedule call, in ticks
TargetCapacity == 1   \* capacity of the channel a DelayedSender sends to
MaxEvents == 3        \* events sent to the channels of a multiplexer
MaxTimeout == 2       \* longest timeout of a next call, in ticks

\* ------------------------------------------------------------- Option<T>
None == <<>>
Some(x) == <<x>>
IsSome(o) == o # <<>>
Unwrap(o) == o[1]

\* ------------------------------------------------------------ input sets
\* DeviceRef = (HomieDomain, HomieID)
DomainOf(k) == IF k % 2 = 1 THEN "homie" ELSE "test"
IdOf(k) == (k + 1) \div 2
DeviceRefs == {[domain |-> DomainOf(k), id |-> IdOf(k)] : k \in 1..NumDevices}

\* HomieDeviceStatus (two of the protocol's states)
Statuses == {"init", "ready"}

\* PropertyPointer = (node id, property id)
PropP == [node |-> "node-1", prop |-> "temperature"]
PropQ == [node |-> "node-1", prop |-> "humidity"]
PropPointers == {PropP, PropQ}
PropertyRefs == {[device |-> d, pointer |-> p] : d \in DeviceRefs, p \in PropPointers}

\* HomieDeviceDescription: version and the property descriptions of its nodes
DescA == [version |-> 1, props |-> (PropP :> [datatype |-> "integer", retained |-> TRUE])]
DescB == [version |-> 2, props |-> (PropP :> [datatype |-> "integer", retained |-> FALSE])]
DescC == [version |-> 2, props |-> (PropP :> [datatype |-> "integer", retained |-> TRUE])
                              @@ (PropQ :> [datatype |-> "integer", retained |-> TRUE])]
Descriptions == {DescA, DescB, DescC}

\* raw payloads of property value / target messages
Payloads == {"1", "2", "x"}

\* alert ids and alert texts ("" clears the alert)
AlertIds == {"battery"}
AlertTexts == {"", "low", "empty"}

\* Homie5Message
Messages ==
    {[kind |-> "DeviceState", device |-> d, state |-> s] : d \in DeviceRefs, s \in Statuses}
    \cup {[kind |-> "DeviceDescription", device |-> d, description |-> desc] :
              d \in DeviceRefs, desc \in Descriptions}
    \cup {[kind |-> "PropertyValue", property |-> p, value |-> v] :
              p \in PropertyRefs, v \in Payloads}
    \cup {[kind |-> "PropertyTarget", property |-> p, target |-> v] :
              p \in PropertyRefs, v \in Payloads}
    \cup {[kind |-> "DeviceAlert", device |-> d, alert_id |-> a, alert_msg |-> t] :
              d \in DeviceRefs, a \in AlertIds, t \in AlertTexts}
    \cup {[kind |-> "DeviceRemoval", device |-> d] : d \in DeviceRefs}
    \cup {[kind |-> "Broadcast"]}

\* index of the transport call of one handle_event that fails (0: none does)
FailAt == 0..2

VARIABLES
    devices,   \* the DeviceStore passed to handle_event
    pre,       \* the DeviceStore as it was when the last handle_event started
    msg,       \* the message of the last handle_event (None before the first)
    result,    \* what the last handle_event returned
    calls,     \* the transport calls the last handle_event made, in order
    steps,     \* number of messages handled
    track,     \* what an observer of the engine has seen so far: the subscriptions in
               \* force, the actions emitted for the devices in the store, the devices
               \* removed
    value_store,  \* a PropertyValueStore on which store_value / store_target are called
    value_call,   \* the last call on value_store: its arguments, the store before, its result
    alert_store,  \* an AlertStore on which store_alert is called
    alert_call,   \* the last call on alert_store: its arguments, the store before, its result
    hier_store,   \* a DeviceStore on which is_orphaned / device_state_resolved are called
    hier_call,    \* the running or finished call on hier_store (result: what is_orphaned
                  \* returned, state: what device_state_resolved returned)
    query_call,   \* the last QueryDefinition::match_query call: its arguments and result
    mat_query,    \* the QueryDefinition a MaterializedQuery was built with
    mat_refs,     \* its mat_refs, a set of property refs
    mat_call,     \* the last call on it: its arguments, mat_refs before, the call before
    map_call,     \* the last ValueMappingList::map_to call: its arguments and result
    cond_call,    \* the last ValueCondition::evaluate / evaluate_option call
    deb_now,       \* the clock (Instant::now), in ticks
    deb_sent,      \* the time of each DebouncedSender::send; the n-th send sends event n
    deb_queue,     \* the events in the channel to the debounce task
    deb_closed,    \* the DebouncedSender was dropped
    deb_pc,        \* where the debounce task is: "idle" (outer recv), "debouncing"
                   \* (select!), "stopped"
    deb_running,   \* the runtime is polling the task: it runs until it has to wait
    deb_pending,   \* pending_event (0: none)
    deb_deadline,  \* deadline of timer
    deb_delivered, \* what the task sent to target: event, time, sends made until then
    del_now,       \* the clock, in ticks
    del_handle,    \* DelayedSender::handle: the task of the last schedule call, if any
    del_tasks,     \* the tasks spawned by schedule, in order; the n-th sends event n
    del_target,    \* the events in the channel the tasks send to
    del_delivered, \* the sends that completed: event and time
    del_aborts,    \* the abort calls recorded: the task of the handle taken (0 without
                   \* a handle), whether that task had delivered, the value returned
    mux_now,       \* the clock, in ticks
    mux_chan,      \* the events queued in each input channel of a multiplexer
    mux_closed,    \* the input channels whose senders were dropped
    mux_sent,      \* number of events sent to the input channels
    mux_call       \* the running or last next call

discoveryVars == <<devices, pre, msg, result, calls, steps, track>>
valueVars == <<value_store, value_call>>
alertVars == <<alert_store, alert_call>>
hierVars == <<hier_store, hier_call>>
queryVars == <<query_call>>
coreVars == <<discoveryVars, valueVars, alertVars, hierVars, queryVars>>
matVars == <<mat_query, mat_refs, mat_call>>
\* the variables of the components modelled on their own
mapVars == <<map_call>>
condVars == <<cond_call>>
debounceVars ==
    <<deb_now, deb_sent, deb_queue, deb_closed, deb_pc, deb_running, deb_pending,
      deb_deadline, deb_delivered>>
delayedVars == <<del_now, del_handle, del_tasks, del_target, del_delivered, del_aborts>>
\* the variables of the tokio helpers
muxVars == <<mux_now, mux_chan, mux_closed, mux_sent, mux_call>>
helperVars == <<debounceVars, delayedVars, muxVars>>
auxVars == <<matVars, mapVars, condVars, helperVars>>
vars == <<discoveryVars, valueVars, alertVars, hierVars, queryVars, auxVars>>

\* ------------------------------------------------------------ map helpers
Put(f, k, v) == [x \in DOMAIN f \cup {k} |-> IF x = k THEN v ELSE f[x]]
Del(f, k) == [x \in DOMAIN f \ {k} |-> f[x]]
EmptyMap == [x \in {} |-> x]

\* the elements of a Vec
Range(seq) == {seq[i] : i \in 1..Len(seq)}

\* ----------------------------------------------------- PropertyValueStore
\* PropertyValueEntry { value, target }; Default::default() has both None
DefaultEntry == [value |-> None, target |-> None]

\* store_value reading the old value after it has overwritten it
store_value_stale_old(pv, prop, value) ==
    IF prop \in DOMAIN pv
    THEN IF pv[prop].value # Some(value)
         THEN [store |-> [pv EXCEPT ![prop].value = Some(value)],
               update |-> [kind |-> "Changed", old |-> Some(value), new |-> value]]
         ELSE [store |-> pv, update |-> [kind |-> "Equal"]]
    ELSE [store |-> Put(pv, prop, [DefaultEntry EXCEPT !.value = Some(value)]),
          update |-> [kind |-> "Changed", old |-> None, new |-> value]]

\* store_value replacing a changed entry by a fresh one, which drops its target
store_value_resets_entry(pv, prop, value) ==
    IF prop \in DOMAIN pv
    THEN IF pv[prop].value # Some(value)
         THEN [store |-> [pv EXCEPT ![prop] = [DefaultEntry EXCEPT !.value = Some(value)]],
               update |-> [kind |-> "Changed", old |-> pv[prop].value, new |-> value]]
         ELSE [store |-> pv, update |-> [kind |-> "Equal"]]
    ELSE [store |-> Put(pv, prop, [DefaultEntry EXCEPT !.value = Some(value)]),
          update |-> [kind |-> "Changed", old |-> None, new |-> value]]

\* PropertyValueStore::store_value: [store, update]
store_value(pv, prop, value) ==
    IF prop \in DOMAIN pv
    THEN IF pv[prop].value # Some(value)
         THEN [store |-> [pv EXCEPT ![prop].value = Some(value)],
               update |-> [kind |-> "Changed", old |-> pv[prop].value, new |-> value]]
         ELSE [store |-> pv, update |-> [kind |-> "Equal"]]
    ELSE [store |-> Put(pv, prop, [DefaultEntry EXCEPT !.value = Some(value)]),
          update |-> [kind |-> "Changed", old |-> None, new |-> value]]

\* store_target writing the value field of the entry
store_target_writes_value(pv, prop, target) ==
    IF prop \in DOMAIN pv
    THEN IF pv[prop].target # Some(target)
         THEN [store |-> [pv EXCEPT ![prop].value = Some(target)],
               update |-> [kind |-> "Changed", old |-> pv[prop].target, new |-> target]]
         ELSE [store |-> pv, update |-> [kind |-> "Equal"]]
    ELSE [store |-> Put(pv, prop, [DefaultEntry EXCEPT !.value = Some(target)]),
          update |-> [kind |-> "Changed", old |-> None, new |-> target]]

\* PropertyValueStore::store_target: [store, update]
store_target(pv, prop, target) ==
    IF prop \in DOMAIN pv
    THEN IF pv[prop].target # Some(target)
         THEN [store |-> [pv EXCEPT ![prop].target = Some(target)],
               update |-> [kind |-> "Changed", old |-> pv[prop].target, new |-> target]]
         ELSE [store |-> pv, update |-> [kind |-> "Equal"]]
    ELSE [store |-> Put(pv, prop, [DefaultEntry EXCEPT !.target = Some(target)]),
          update |-> [kind |-> "Changed", old |-> None, new |-> target]]

\* PropertyValueStore::get_value_entry: Option<PropertyValueEntry>
get_value_entry(pv, prop) == IF prop \in DOMAIN pv THEN Some(pv[prop]) ELSE None

\* ------------------------------------------------------------- AlertStore
\* store_alert reading the old text after it has overwritten it
alert_store_alert_stale_old(alerts, id, alert) ==
    IF alert = ""
    THEN IF id \in DOMAIN alerts
         THEN [store |-> Del(alerts, id), update |-> [kind |-> "Cleared", id |-> id]]
         ELSE [store |-> alerts, update |-> [kind |-> "NoChange"]]
    ELSE IF id \in DOMAIN alerts
         THEN IF alerts[id] # alert
              THEN [store |-> [alerts EXCEPT ![id] = alert],
                    update |-> [kind |-> "Changed", id |-> id,
                                old_alert |-> alert, new_alert |-> alert]]
              ELSE [store |-> alerts, update |-> [kind |-> "Equal"]]
         ELSE [store |-> Put(alerts, id, alert),
               update |-> [kind |-> "New", id |-> id, alert |-> alert]]

\* store_alert without the branch for an empty text
alert_store_alert_stores_empty(alerts, id, alert) ==
    IF id \in DOMAIN alerts
    THEN IF alerts[id] # alert
         THEN [store |-> [alerts EXCEPT ![id] = alert],
               update |-> [kind |-> "Changed", id |-> id,
                           old_alert |-> alerts[id], new_alert |-> alert]]
         ELSE [store |-> alerts, update |-> [kind |-> "Equal"]]
    ELSE [store |-> Put(alerts, id, alert),
          update |-> [kind |-> "New", id |-> id, alert |-> alert]]

\* AlertStore::store_alert: [store, update]
alert_store_alert(alerts, id, alert) ==
    IF alert = ""
    THEN IF id \in DOMAIN alerts
         THEN [store |-> Del(alerts, id), update |-> [kind |-> "Cleared", id |-> id]]
         ELSE [store |-> alerts, update |-> [kind |-> "NoChange"]]
    ELSE IF id \in DOMAIN alerts
         THEN IF alerts[id] # alert
              THEN [store |-> [alerts EXCEPT ![id] = alert],
                    update |-> [kind |-> "Changed", id |-> id,
                                old_alert |-> alerts[id], new_alert |-> alert]]
              ELSE [store |-> alerts, update |-> [kind |-> "Equal"]]
         ELSE [store |-> Put(alerts, id, alert),
               update |-> [kind |-> "New", id |-> id, alert |-> alert]]

\* ------------------------------------------------------------ DeviceStore
\* DeviceStore(HashMap<HomieDomain, HashMap<HomieID, Device>>)
contains_device(store, devref) ==
    devref.domain \in DOMAIN store /\ devref.id \in DOMAIN store[devref.domain]

\* DeviceStore::get_device / get_device_mut: Option<Device>
get_device(store, devref) ==
    IF contains_device(store, devref) THEN Some(store[devref.domain][devref.id]) ELSE None

\* writes through the &mut Device that get_device_mut handed out
SetDevice(store, devref, device) ==
    [store EXCEPT ![devref.domain] = [@ EXCEPT ![devref.id] = device]]

\* the Device that DeviceStore::add constructs
NewDevice(device_ref, status) ==
    [ident |-> device_ref, state |-> status, description |-> None,
     prop_values |-> EmptyMap, alerts |-> EmptyMap]

\* add reporting a status change without assigning device.state
add_keeps_state(store, device_ref, status) ==
    IF contains_device(store, device_ref)
    THEN LET device == store[device_ref.domain][device_ref.id]
         IN IF device.state # status
            THEN [store |-> store,
                  update |-> [kind |-> "StateUpdate", device |-> device_ref,
                              from |-> device.state, to |-> status]]
            ELSE [store |-> store, update |-> [kind |-> "NoChange"]]
    ELSE LET device == NewDevice(device_ref, status)
         IN [store |-> IF device_ref.domain \in DOMAIN store
                       THEN [store EXCEPT ![device_ref.domain] = Put(@, device_ref.id, device)]
                       ELSE Put(store, device_ref.domain, Put(EmptyMap, device_ref.id, device)),
             update |-> [kind |-> "Added", device |-> device_ref]]

\* DeviceStore::add: [store, update]
add(store, device_ref, status) ==
    IF contains_device(store, device_ref)
    THEN LET device == store[device_ref.domain][device_ref.id]
         IN IF device.state # status
            THEN [store |-> SetDevice(store, device_ref, [device EXCEPT !.state = status]),
                  update |-> [kind |-> "StateUpdate", device |-> device_ref,
                              from |-> device.state, to |-> status]]
            ELSE [store |-> store, update |-> [kind |-> "NoChange"]]
    ELSE LET device == NewDevice(device_ref, status)
         IN [store |-> IF device_ref.domain \in DOMAIN store
                       THEN [store EXCEPT ![device_ref.domain] = Put(@, device_ref.id, device)]
                       ELSE Put(store, device_ref.domain, Put(EmptyMap, device_ref.id, device)),
             update |-> [kind |-> "Added", device |-> device_ref]]

\* remove_device handing out a copy of the device without evicting it
remove_device_keeps_entry(store, devref) ==
    IF devref.domain \in DOMAIN store
    THEN IF devref.id \in DOMAIN store[devref.domain]
         THEN [store |-> store, removed |-> Some(store[devref.domain][devref.id])]
         ELSE [store |-> store, removed |-> None]
    ELSE [store |-> store, removed |-> None]

\* remove_device handing out the device and leaving it in the store without its
\* description, with its values and alerts
remove_device_keeps_state(store, devref) ==
    IF devref.domain \in DOMAIN store
    THEN IF devref.id \in DOMAIN store[devref.domain]
         THEN [store |-> SetDevice(store, devref,
                                   [store[devref.domain][devref.id]
                                       EXCEPT !.description = None]),
               removed |-> Some(store[devref.domain][devref.id])]
         ELSE [store |-> store, removed |-> None]
    ELSE [store |-> store, removed |-> None]

\* DeviceStore::remove_device: [store, removed]; removed = None is NotFound
remove_device(store, devref) ==
    IF devref.domain \in DOMAIN store
    THEN IF devref.id \in DOMAIN store[devref.domain]
         THEN [store |-> [store EXCEPT ![devref.domain] = Del(@, devref.id)],
               removed |-> Some(store[devref.domain][devref.id])]
         ELSE [store |-> store, removed |-> None]
    ELSE [store |-> store, removed |-> None]

\* store_description reporting a new version without installing it
store_description_keeps_old(store, device_ref, description) ==
    IF contains_device(store, device_ref)
    THEN LET device == store[device_ref.domain][device_ref.id]
             stored == SetDevice(store, device_ref,
                                 [device EXCEPT !.description = Some(description)])
         IN IF IsSome(device.description)
            THEN IF Unwrap(device.description).version # description.version
                 THEN [store |-> store,
                       update |-> [kind |-> "Update", device |-> device_ref,
                                   from |-> device.description, to |-> description]]
                 ELSE [store |-> store, update |-> [kind |-> "NoChange"]]
            ELSE [store |-> stored,
                  update |-> [kind |-> "Update", device |-> device_ref,
                              from |-> None, to |-> description]]
    ELSE [store |-> store, update |-> [kind |-> "NotFound"]]

\* store_description comparing the whole description instead of its version
store_description_compares_content(store, device_ref, description) ==
    IF contains_device(store, device_ref)
    THEN LET device == store[device_ref.domain][device_ref.id]
             stored == SetDevice(store, device_ref,
                                 [device EXCEPT !.description = Some(description)])
         IN IF IsSome(device.description)
            THEN IF Unwrap(device.description) # description
                 THEN [store |-> stored,
                       update |-> [kind |-> "Update", device |-> device_ref,
                                   from |-> device.description, to |-> description]]
                 ELSE [store |-> store, update |-> [kind |-> "NoChange"]]
            ELSE [store |-> stored,
                  update |-> [kind |-> "Update", device |-> device_ref,
                              from |-> None, to |-> description]]
    ELSE [store |-> store, update |-> [kind |-> "NotFound"]]

\* store_description creating the device when it is not in the store
store_description_upsert(store, device_ref, description) ==
    IF contains_device(store, device_ref)
    THEN LET device == store[device_ref.domain][device_ref.id]
             stored == SetDevice(store, device_ref,
                                 [device EXCEPT !.description = Some(description)])
         IN IF IsSome(device.description)
            THEN IF Unwrap(device.description).version # description.version
                 THEN [store |-> stored,
                       update |-> [kind |-> "Update", device |-> device_ref,
                                   from |-> device.description, to |-> description]]
                 ELSE [store |-> store, update |-> [kind |-> "NoChange"]]
            ELSE [store |-> stored,
                  update |-> [kind |-> "Update", device |-> device_ref,
                              from |-> None, to |-> description]]
    ELSE LET device == [NewDevice(device_ref, "init") EXCEPT !.description = Some(description)]
         IN [store |-> IF device_ref.domain \in DOMAIN store
                       THEN [store EXCEPT ![device_ref.domain] = Put(@, device_ref.id, device)]
                       ELSE Put(store, device_ref.domain, Put(EmptyMap, device_ref.id, device)),
             update |-> [kind |-> "Update", device |-> device_ref,
                         from |-> None, to |-> description]]

\* store_description dropping the value entries of the properties the new
\* description does not have
store_description_prunes(store, device_ref, description) ==
    IF contains_device(store, device_ref)
    THEN LET device == store[device_ref.domain][device_ref.id]
             kept == [p \in DOMAIN device.prop_values \cap DOMAIN description.props |->
                         device.prop_values[p]]
             stored == SetDevice(store, device_ref,
                                 [device EXCEPT !.description = Some(description),
                                                !.prop_values = kept])
         IN IF IsSome(device.description)
            THEN IF Unwrap(device.description).version # description.version
                 THEN [store |-> stored,
                       update |-> [kind |-> "Update", device |-> device_ref,
                                   from |-> device.description, to |-> description]]
                 ELSE [store |-> store, update |-> [kind |-> "NoChange"]]
            ELSE [store |-> stored,
                  update |-> [kind |-> "Update", device |-> device_ref,
                              from |-> None, to |-> description]]
    ELSE [store |-> store, update |-> [kind |-> "NotFound"]]

\* DeviceStore::store_description: [store, update]
store_description(store, device_ref, description) ==
    IF contains_device(store, device_ref)
    THEN LET device == store[device_ref.domain][device_ref.id]
             stored == SetDevice(store, device_ref,
                                 [device EXCEPT !.description = Some(description)])
         IN IF IsSome(device.description)
            THEN IF Unwrap(device.description).version # description.version
                 THEN [store |-> stored,
                       update |-> [kind |-> "Update", device |-> device_ref,
                                   from |-> device.description, to |-> description]]
                 ELSE [store |-> store, update |-> [kind |-> "NoChange"]]
            ELSE [store |-> stored,
                  update |-> [kind |-> "Update", device |-> device_ref,
                              from |-> None, to |-> description]]
    ELSE [store |-> store, update |-> [kind |-> "NotFound"]]

\* device_state_resolved returning the root's status whatever the device's own status
device_state_resolved_root_first(store, devref) ==
    LET found == get_device(store, devref)
    IN IF ~IsSome(found) THEN None
       ELSE LET device == Unwrap(found)
                root == IF IsSome(device.description)
                        THEN Unwrap(device.description).root ELSE None
            IN IF ~IsSome(root) THEN Some(device.state)
               ELSE IF devref.domain \in DOMAIN store
                       /\ Unwrap(root) \in DOMAIN store[devref.domain]
                    THEN Some(store[devref.domain][Unwrap(root)].state)
                    ELSE Some(device.state)

\* DeviceStore::device_state_resolved: Option<HomieDeviceStatus>
device_state_resolved(store, devref) ==
    LET found == get_device(store, devref)
    IN IF ~IsSome(found) THEN None
       ELSE LET device == Unwrap(found)
                root == IF IsSome(device.description)
                        THEN Unwrap(device.description).root ELSE None
            IN IF device.state # "ready" THEN Some(device.state)
               ELSE IF ~IsSome(root) THEN Some(device.state)
               ELSE IF devref.domain \in DOMAIN store
                       /\ Unwrap(root) \in DOMAIN store[devref.domain]
                    THEN Some(store[devref.domain][Unwrap(root)].state)
                    ELSE Some(device.state)

\* the two ways one activation of is_orphaned ends
Return(value) == [kind |-> "return", value |-> value]
Recurse(device) == [kind |-> "recurse", device |-> device]

\* DeviceStore::is_orphaned, one activation: the value it returns or the device it
\* calls itself with
is_orphaned(store, device) ==
    IF IsSome(device.description) /\ IsSome(Unwrap(device.description).parent)
    THEN LET parent == Unwrap(Unwrap(device.description).parent)
             dref == [domain |-> device.ident.domain, id |-> parent]
             p == get_device(store, dref)
         IN IF IsSome(p)
            THEN IF IsSome(Unwrap(p).description)
                 THEN LET pd == Unwrap(Unwrap(p).description)
                      IN IF device.ident.id \in pd.children
                         THEN IF IsSome(pd.parent)
                              THEN Recurse(Unwrap(p))
                              ELSE Return(FALSE)
                         ELSE Return(TRUE)
                 ELSE Return(FALSE)
            ELSE Return(TRUE)
    ELSE Return(FALSE)

\* --------------------------------------------------------- HomieDiscovery
\* HomieValue::parse for the integer datatype: Some(number), or None on a parse error
\* a parse that falls back to 0 instead of reporting the error
HomieValueParse_lenient(raw, prop_desc) ==
    IF prop_desc.datatype = "integer" /\ raw \in {"1", "2"}
    THEN Some(IF raw = "1" THEN 1 ELSE 2)
    ELSE Some(0)

IntegerLiterals == ("1" :> 1) @@ ("2" :> 2)
HomieValueParse(raw, prop_desc) ==
    IF prop_desc.datatype = "integer" /\ raw \in DOMAIN IntegerLiterals
    THEN Some(IntegerLiterals[raw])
    ELSE None

\* HomieDeviceDescription::with_property: the property's description, if it has one
with_property(desc, property) ==
    IF property.pointer \in DOMAIN desc.props THEN Some(desc.props[property.pointer]) ELSE None

\* the topics one homie_subscribe / homie_unsubscribe call iterates over
Topics(op, device, desc) ==
    IF op \in {"subscribe_device", "unsubscribe_device"}
    THEN {device}
    ELSE {[device |-> device, pointer |-> p] : p \in DOMAIN Unwrap(desc).props}

\* HomieMQTTClient::homie_subscribe / homie_unsubscribe: one call, `fails` tells
\* whether the transport rejects it; a call over no topic cannot fail
TransportCall(op, device, desc, fails) ==
    [op |-> op, device |-> device, desc |-> desc,
     ok |-> ~(fails /\ Topics(op, device, desc) # {})]

Ok(devs, action, cs) ==
    [devices |-> devs, result |-> [ok |-> TRUE, action |-> action, error |-> "none"], calls |-> cs]
Err(devs, error, cs) ==
    [devices |-> devs, result |-> [ok |-> FALSE, action |-> None, error |-> error], calls |-> cs]

\* update_prop_value storing the value whatever the retained flag says
update_prop_value_always_stores(property, value, devs) ==
    LET dev == get_device(devs, property.device)
        prop_desc == IF IsSome(dev) /\ IsSome(Unwrap(dev).description)
                     THEN with_property(Unwrap(Unwrap(dev).description), property)
                     ELSE None
        parsed == IF IsSome(prop_desc) THEN HomieValueParse(value, Unwrap(prop_desc)) ELSE None
    IN IF ~IsSome(parsed)
       THEN [devices |-> devs, action |-> None]
       ELSE LET r == store_value(Unwrap(dev).prop_values, property.pointer, Unwrap(parsed))
            IN [devices |-> SetDevice(devs, property.device,
                                      [Unwrap(dev) EXCEPT !.prop_values = r.store]),
                action |-> IF r.update.kind = "Equal"
                           THEN None
                           ELSE Some([kind |-> "DevicePropertyValueChanged",
                                      prop |-> property,
                                      from |-> r.update.old, to |-> r.update.new])]

\* HomieDiscovery::update_prop_value: [devices, action]
update_prop_value(property, value, devs) ==
    LET dev == get_device(devs, property.device)
        prop_desc == IF IsSome(dev) /\ IsSome(Unwrap(dev).description)
                     THEN with_property(Unwrap(Unwrap(dev).description), property)
                     ELSE None
        parsed == IF IsSome(prop_desc) THEN HomieValueParse(value, Unwrap(prop_desc)) ELSE None
    IN IF ~IsSome(parsed)
       THEN [devices |-> devs, action |-> None]
       ELSE IF Unwrap(prop_desc).retained
            THEN LET r == store_value(Unwrap(dev).prop_values, property.pointer, Unwrap(parsed))
                 IN [devices |-> SetDevice(devs, property.device,
                                           [Unwrap(dev) EXCEPT !.prop_values = r.store]),
                     action |-> IF r.update.kind = "Equal"
                                THEN None
                                ELSE Some([kind |-> "DevicePropertyValueChanged",
                                           prop |-> property,
                                           from |-> r.update.old, to |-> r.update.new])]
            ELSE [devices |-> devs,
                  action |-> Some([kind |-> "DevicePropertyValueTriggered",
                                   prop |-> property, value |-> Unwrap(parsed)])]

\* HomieDiscovery::update_prop_target: [devices, action]
update_prop_target(property, target, devs) ==
    LET dev == get_device(devs, property.device)
        prop_desc == IF IsSome(dev) /\ IsSome(Unwrap(dev).description)
                     THEN with_property(Unwrap(Unwrap(dev).description), property)
                     ELSE None
        parsed == IF IsSome(prop_desc) THEN HomieValueParse(target, Unwrap(prop_desc)) ELSE None
    IN IF ~IsSome(parsed)
       THEN [devices |-> devs, action |-> None]
       ELSE LET r == store_target(Unwrap(dev).prop_values, property.pointer, Unwrap(parsed))
            IN [devices |-> SetDevice(devs, property.device,
                                      [Unwrap(dev) EXCEPT !.prop_values = r.store]),
                action |-> IF r.update.kind = "Equal"
                           THEN None
                           ELSE Some([kind |-> "DevicePropertyTargetChanged",
                                      prop |-> property,
                                      from |-> r.update.old, to |-> r.update.new])]

\* store_alert creating the device when it is not in the store
store_alert_creates_device(device_ref, id, alert, devs) ==
    LET known == get_device(devs, device_ref)
        with == IF IsSome(known) THEN devs ELSE add(devs, device_ref, "init").store
        dev == get_device(with, device_ref)
        r == alert_store_alert(Unwrap(dev).alerts, id, alert)
        u == r.update
    IN [devices |-> SetDevice(with, device_ref, [Unwrap(dev) EXCEPT !.alerts = r.store]),
        action |->
            CASE u.kind \in {"Equal", "NoChange"} -> None
              [] u.kind = "New" ->
                    Some([kind |-> "DeviceAlert", device |-> device_ref,
                          alert_id |-> u.id, alert |-> u.alert])
              [] u.kind = "Changed" ->
                    Some([kind |-> "DeviceAlertChanged", device |-> device_ref,
                          alert_id |-> u.id, from_alert |-> u.old_alert,
                          to_alert |-> u.new_alert])
              [] u.kind = "Cleared" ->
                    Some([kind |-> "DeviceAlertCleared", device |-> device_ref,
                          alert_id |-> u.id])]

\* HomieDiscovery::store_alert: [devices, action]
store_alert(device_ref, id, alert, devs) ==
    LET dev == get_device(devs, device_ref)
    IN IF ~IsSome(dev)
       THEN [devices |-> devs, action |-> None]
       ELSE LET r == alert_store_alert(Unwrap(dev).alerts, id, alert)
                u == r.update
            IN [devices |-> SetDevice(devs, device_ref, [Unwrap(dev) EXCEPT !.alerts = r.store]),
                action |->
                    CASE u.kind \in {"Equal", "NoChange"} -> None
                      [] u.kind = "New" ->
                            Some([kind |-> "DeviceAlert", device |-> device_ref,
                                  alert_id |-> u.id, alert |-> u.alert])
                      [] u.kind = "Changed" ->
                            Some([kind |-> "DeviceAlertChanged", device |-> device_ref,
                                  alert_id |-> u.id, from_alert |-> u.old_alert,
                                  to_alert |-> u.new_alert])
                      [] u.kind = "Cleared" ->
                            Some([kind |-> "DeviceAlertCleared", device |-> device_ref,
                                  alert_id |-> u.id])]

\* the DeviceState arm subscribing on every status change, not only on Added
handle_device_state_resubscribes(event, devs, f) ==
    LET r == add(devs, event.device, event.state)
        sub == TransportCall("subscribe_device", event.device, None, f = 1)
    IN CASE r.update.kind = "Added" ->
                IF sub.ok
                THEN Ok(r.store, Some([kind |-> "NewDevice", device |-> event.device,
                                       status |-> event.state]), <<sub>>)
                ELSE Err(r.store, "MqttClient", <<sub>>)
         [] r.update.kind = "StateUpdate" ->
                IF sub.ok
                THEN Ok(r.store, Some([kind |-> "StateChanged", device |-> event.device,
                                       from |-> r.update.from, to |-> r.update.to]), <<sub>>)
                ELSE Err(r.store, "MqttClient", <<sub>>)
         [] r.update.kind = "NoChange" -> Ok(r.store, None, <<>>)

\* handle_event, Homie5Message::DeviceState arm
handle_device_state(event, devs, f) ==
    LET r == add(devs, event.device, event.state)
        sub == TransportCall("subscribe_device", event.device, None, f = 1)
    IN CASE r.update.kind = "Added" ->
                IF sub.ok
                THEN Ok(r.store, Some([kind |-> "NewDevice", device |-> event.device,
                                       status |-> event.state]), <<sub>>)
                ELSE Err(r.store, "MqttClient", <<sub>>)
         [] r.update.kind = "StateUpdate" ->
                Ok(r.store, Some([kind |-> "StateChanged", device |-> event.device,
                                  from |-> r.update.from, to |-> r.update.to]), <<>>)
         [] r.update.kind = "NoChange" -> Ok(r.store, None, <<>>)

\* the DeviceDescription arm subscribing to the new properties before it
\* unsubscribes from the old ones
handle_device_description_subscribes_first(event, devs, f) ==
    LET r == store_description(devs, event.device, event.description)
        u == r.update
    IN CASE u.kind = "Update" ->
                LET sub == TransportCall("subscribe_props", u.device, Some(u.to), f = 1)
                    unsub == TransportCall("unsubscribe_props", u.device, u.from, f = 2)
                    changed == Some([kind |-> "DeviceDescriptionChanged",
                                     device |-> event.device])
                IN IF IsSome(u.from) /\ Unwrap(u.from).version = u.to.version
                   THEN Ok(r.store, None, <<>>)
                   ELSE IF ~sub.ok
                        THEN Err(r.store, "MqttClient", <<sub>>)
                        ELSE IF ~IsSome(u.from)
                             THEN Ok(r.store, changed, <<sub>>)
                             ELSE IF unsub.ok
                                  THEN Ok(r.store, changed, <<sub, unsub>>)
                                  ELSE Err(r.store, "MqttClient", <<sub, unsub>>)
         [] u.kind = "NoChange" -> Ok(r.store, None, <<>>)
         [] u.kind = "NotFound" -> Err(r.store, "DescriptionForNonExistingDevice", <<>>)

\* the DeviceDescription arm that does not unsubscribe from the old description
handle_device_description_keeps_subscription(event, devs, f) ==
    LET r == store_description(devs, event.device, event.description)
        u == r.update
    IN CASE u.kind = "Update" ->
                LET sub == TransportCall("subscribe_props", u.device, Some(u.to), f = 1)
                    changed == Some([kind |-> "DeviceDescriptionChanged",
                                     device |-> event.device])
                IN IF IsSome(u.from) /\ Unwrap(u.from).version = u.to.version
                   THEN Ok(r.store, None, <<>>)
                   ELSE IF sub.ok
                        THEN Ok(r.store, changed, <<sub>>)
                        ELSE Err(r.store, "MqttClient", <<sub>>)
         [] u.kind = "NoChange" -> Ok(r.store, None, <<>>)
         [] u.kind = "NotFound" -> Err(r.store, "DescriptionForNonExistingDevice", <<>>)

\* handle_event, Homie5Message::DeviceDescription arm
handle_device_description(event, devs, f) ==
    LET r == store_description(devs, event.device, event.description)
        u == r.update
    IN CASE u.kind = "Update" ->
                LET unsub == TransportCall("unsubscribe_props", u.device, u.from, f = 1)
                    before == IF IsSome(u.from) THEN <<unsub>> ELSE <<>>
                    sub == TransportCall("subscribe_props", u.device, Some(u.to),
                                         f = Len(before) + 1)
                    changed == Some([kind |-> "DeviceDescriptionChanged",
                                     device |-> event.device])
                IN IF IsSome(u.from) /\ Unwrap(u.from).version = u.to.version
                   THEN Ok(r.store, None, <<>>)
                   ELSE IF IsSome(u.from) /\ ~unsub.ok
                        THEN Err(r.store, "MqttClient", before)
                        ELSE IF sub.ok
                             THEN Ok(r.store, changed, before \o <<sub>>)
                             ELSE Err(r.store, "MqttClient", before \o <<sub>>)
         [] u.kind = "NoChange" -> Ok(r.store, None, <<>>)
         [] u.kind = "NotFound" -> Err(r.store, "DescriptionForNonExistingDevice", <<>>)

\* the DeviceRemoval arm returning the commented-out DeviceRemoved action
handle_device_removal_emits(event, devs, f) ==
    LET unsub_dev == TransportCall("unsubscribe_device", event.device, None, f = 1)
        r == remove_device(devs, event.device)
        dev == Unwrap(r.removed)
        unsub_props == TransportCall("unsubscribe_props", event.device, dev.description, f = 2)
    IN IF ~unsub_dev.ok
       THEN Err(devs, "MqttClient", <<unsub_dev>>)
       ELSE IF ~IsSome(r.removed)
            THEN Ok(r.store, None, <<unsub_dev>>)
            ELSE IF ~IsSome(dev.description)
                 THEN Ok(r.store, None, <<unsub_dev>>)
                 ELSE IF unsub_props.ok
                      THEN Ok(r.store, Some([kind |-> "DeviceRemoved", device |-> dev]),
                              <<unsub_dev, unsub_props>>)
                      ELSE Err(r.store, "MqttClient", <<unsub_dev, unsub_props>>)

\* the DeviceRemoval arm putting the device back when the second unsubscribe fails
handle_device_removal_rolls_back(event, devs, f) ==
    LET unsub_dev == TransportCall("unsubscribe_device", event.device, None, f = 1)
        r == remove_device(devs, event.device)
        dev == Unwrap(r.removed)
        unsub_props == TransportCall("unsubscribe_props", event.device, dev.description, f = 2)
    IN IF ~unsub_dev.ok
       THEN Err(devs, "MqttClient", <<unsub_dev>>)
       ELSE IF ~IsSome(r.removed)
            THEN Ok(r.store, None, <<unsub_dev>>)
            ELSE IF ~IsSome(dev.description)
                 THEN Ok(r.store, None, <<unsub_dev>>)
                 ELSE IF unsub_props.ok
                      THEN Ok(r.store, None, <<unsub_dev, unsub_props>>)
                      ELSE Err(devs, "MqttClient", <<unsub_dev, unsub_props>>)

\* handle_event, Homie5Message::DeviceRemoval arm
handle_device_removal(event, devs, f) ==
    LET unsub_dev == TransportCall("unsubscribe_device", event.device, None, f = 1)
        r == remove_device(devs, event.device)
        dev == Unwrap(r.removed)
        unsub_props == TransportCall("unsubscribe_props", event.device, dev.description, f = 2)
    IN IF ~unsub_dev.ok
       THEN Err(devs, "MqttClient", <<unsub_dev>>)
       ELSE IF ~IsSome(r.removed)
            THEN Ok(r.store, None, <<unsub_dev>>)
            ELSE IF ~IsSome(dev.description)
                 THEN Ok(r.store, None, <<unsub_dev>>)
                 ELSE IF unsub_props.ok
                      THEN Ok(r.store, None, <<unsub_dev, unsub_props>>)
                      ELSE Err(r.store, "MqttClient", <<unsub_dev, unsub_props>>)

\* HomieDiscovery::handle_event: [devices, result, calls];
\* f is the index of the transport call that fails (0: none)
handle_event(event, devs, f) ==
    CASE event.kind = "DeviceState" -> handle_device_state(event, devs, f)
      [] event.kind = "DeviceDescription" -> handle_device_description(event, devs, f)
      [] event.kind = "PropertyValue" ->
            LET r == update_prop_value(event.property, event.value, devs)
            IN Ok(r.devices, r.action, <<>>)
      [] event.kind = "PropertyTarget" ->
            LET r == update_prop_target(event.property, event.target, devs)
            IN Ok(r.devices, r.action, <<>>)
      [] event.kind = "DeviceAlert" ->
            LET r == store_alert(event.device, event.alert_id, event.alert_msg, devs)
            IN Ok(r.devices, r.action, <<>>)
      [] event.kind = "DeviceRemoval" -> handle_device_removal(event, devs, f)
      [] OTHER -> Ok(devs, Some([kind |-> "Unhandled", event |-> event]), <<>>)

\* --------------------------------------------------------- ValueCondition
\* ValueSet<T>
Single(v) == [set |-> "Single", value |-> v]
Multiple(vs) == [set |-> "Multiple", values |-> vs]

\* ValueCondition<T>: Value(T) | Operator{operator, value: Option<ValueSet<T>>} | Pattern
Literal(v) == [kind |-> "Value", value |-> v]
Operator(op, operand) == [kind |-> "Operator", operator |-> op, value |-> operand]
Pattern(pattern) == [kind |-> "Pattern", pattern |-> pattern]

\* ConditionOperator
ConditionOperators ==
    {"Equal", "Greater", "Less", "GreaterOrEqual", "LessOrEqual", "NotEqual",
     "IncludesAny", "IncludesNone", "MatchAlways", "IsEmpty", "Exists"}

\* the value types conditions are evaluated on
ScalarTypes == {"String", "HomieID", "HomieDataType", "bool", "i64", "HomieDomain"}

\* Vec::contains
Contains(vec, x) == \E i \in 1..Len(vec) : vec[i] = x

\* the strings of the model in the order of str::cmp
SortedStrings ==
    <<"%", "+", "1:20", "5.0", "Device", "Testnode", "Testnode no 2", "boolean", "device-1",
      "device-2", "float", "homie", "integer", "node-1", "node-2", "other-type", "prop-1",
      "prop-2", "prop-3", "string", "test", "test-type">>

\* PartialOrd of a value type, as a rank
Rank(ty, v) ==
    CASE ty = "i64" -> v
      [] ty = "bool" -> IF v THEN 1 ELSE 0
      [] OTHER -> CHOOSE i \in 1..Len(SortedStrings) : SortedStrings[i] = v

\* ValueMatcher::as_match_str
as_match_str(ty, v) ==
    IF ty \in {"String", "HomieID", "HomieDataType"} THEN v ELSE ""

\* Regex::new(pattern).is_match(text) for the patterns of the model; any other pattern
\* stands for one that does not compile
RegexIsMatch(pattern, text) ==
    CASE pattern = "^node-1$" -> text = "node-1"
      [] pattern = "^prop-" -> text \in {"prop-1", "prop-2", "prop-3"}
      [] OTHER -> FALSE

\* ValueMatcher::matches_regex
matches_regex(ty, v, pattern) ==
    IF ty \in {"String", "HomieID", "HomieDataType"}
    THEN RegexIsMatch(pattern, as_match_str(ty, v))
    ELSE FALSE

\* ValueMatcher::matches_literal
matches_literal(v, other) == v = other

\* matches of a scalar type on which IncludesAny and IncludesNone look at the first
\* operand of a set only
matches_scalar_includes_first(ty, v, operator, operand) ==
    LET single == IsSome(operand) /\ Unwrap(operand).set = "Single"
        multiple == IsSome(operand) /\ Unwrap(operand).set = "Multiple"
        o == Unwrap(operand)
    IN CASE operator = "Equal" ->
                IF single THEN v = o.value
                ELSE IF multiple THEN Contains(o.values, v) ELSE FALSE
         [] operator = "Greater" -> single /\ Rank(ty, v) > Rank(ty, o.value)
         [] operator = "Less" -> single /\ Rank(ty, v) < Rank(ty, o.value)
         [] operator = "GreaterOrEqual" -> single /\ Rank(ty, v) >= Rank(ty, o.value)
         [] operator = "LessOrEqual" -> single /\ Rank(ty, v) <= Rank(ty, o.value)
         [] operator = "NotEqual" ->
                IF single THEN v # o.value
                ELSE IF multiple THEN ~Contains(o.values, v) ELSE FALSE
         [] operator = "IncludesAny" ->
                IF single THEN v = o.value
                ELSE IF multiple THEN o.values # <<>> /\ v = Head(o.values) ELSE FALSE
         [] operator = "IncludesNone" ->
                IF single THEN v # o.value
                ELSE IF multiple THEN o.values = <<>> \/ v # Head(o.values) ELSE FALSE
         [] operator = "MatchAlways" -> TRUE
         [] operator = "IsEmpty" -> FALSE
         [] operator = "Exists" -> TRUE

\* ValueMatcher::matches of a scalar type
matches_scalar(ty, v, operator, operand) ==
    LET single == IsSome(operand) /\ Unwrap(operand).set = "Single"
        multiple == IsSome(operand) /\ Unwrap(operand).set = "Multiple"
        o == Unwrap(operand)
    IN CASE operator = "Equal" ->
                IF single THEN v = o.value
                ELSE IF multiple THEN Contains(o.values, v) ELSE FALSE
         [] operator = "Greater" -> single /\ Rank(ty, v) > Rank(ty, o.value)
         [] operator = "Less" -> single /\ Rank(ty, v) < Rank(ty, o.value)
         [] operator = "GreaterOrEqual" -> single /\ Rank(ty, v) >= Rank(ty, o.value)
         [] operator = "LessOrEqual" -> single /\ Rank(ty, v) <= Rank(ty, o.value)
         [] operator = "NotEqual" ->
                IF single THEN v # o.value
                ELSE IF multiple THEN ~Contains(o.values, v) ELSE FALSE
         [] operator = "IncludesAny" ->
                IF single THEN v = o.value
                ELSE IF multiple THEN Contains(o.values, v) ELSE FALSE
         [] operator = "IncludesNone" ->
                IF single THEN v # o.value
                ELSE IF multiple THEN ~Contains(o.values, v) ELSE FALSE
         [] operator = "MatchAlways" -> TRUE
         [] operator = "IsEmpty" -> FALSE
         [] operator = "Exists" -> TRUE

\* value.len() == self.len() && value.iter().all(|v| self.contains(v))
SameElements(value, self) ==
    Len(value) = Len(self) /\ \A i \in 1..Len(value) : Contains(self, value[i])

\* value.iter().any(|v| self.contains(v))
AnyContained(value, self) == \E i \in 1..Len(value) : Contains(self, value[i])

\* matches of Vec<T> on which IncludesAny and IncludesNone look at the first element
\* of each candidate only
matches_vec_first_element(v, operator, operand) ==
    LET single == IsSome(operand) /\ Unwrap(operand).set = "Single"
        multiple == IsSome(operand) /\ Unwrap(operand).set = "Multiple"
        o == Unwrap(operand)
        FirstContained(value, self) == value # <<>> /\ Contains(self, Head(value))
    IN CASE operator = "Equal" ->
                IF single THEN SameElements(o.value, v)
                ELSE IF multiple
                     THEN \E i \in 1..Len(o.values) : SameElements(o.values[i], v)
                     ELSE FALSE
         [] operator = "NotEqual" ->
                IF single THEN ~SameElements(o.value, v)
                ELSE IF multiple
                     THEN \A i \in 1..Len(o.values) : ~SameElements(o.values[i], v)
                     ELSE TRUE
         [] operator = "IncludesAny" ->
                IF single THEN FirstContained(o.value, v)
                ELSE IF multiple
                     THEN \E i \in 1..Len(o.values) : FirstContained(o.values[i], v)
                     ELSE FALSE
         [] operator = "IncludesNone" ->
                IF single THEN ~FirstContained(o.value, v)
                ELSE IF multiple
                     THEN \A i \in 1..Len(o.values) : ~FirstContained(o.values[i], v)
                     ELSE FALSE
         [] operator = "MatchAlways" -> TRUE
         [] OTHER -> FALSE

\* ValueMatcher::matches of Vec<T> (impl_value_matcher_for_vec)
matches_vec(v, operator, operand) ==
    LET single == IsSome(operand) /\ Unwrap(operand).set = "Single"
        multiple == IsSome(operand) /\ Unwrap(operand).set = "Multiple"
        o == Unwrap(operand)
    IN CASE operator = "Equal" ->
                IF single THEN SameElements(o.value, v)
                ELSE IF multiple
                     THEN \E i \in 1..Len(o.values) : SameElements(o.values[i], v)
                     ELSE FALSE
         [] operator = "NotEqual" ->
                IF single THEN ~SameElements(o.value, v)
                ELSE IF multiple
                     THEN \A i \in 1..Len(o.values) : ~SameElements(o.values[i], v)
                     ELSE TRUE
         [] operator = "IncludesAny" ->
                IF single THEN AnyContained(o.value, v)
                ELSE IF multiple
                     THEN \E i \in 1..Len(o.values) : AnyContained(o.values[i], v)
                     ELSE FALSE
         [] operator = "IncludesNone" ->
                IF single THEN ~AnyContained(o.value, v)
                ELSE IF multiple
                     THEN \A i \in 1..Len(o.values) : ~AnyContained(o.values[i], v)
                     ELSE FALSE
         [] operator = "MatchAlways" -> TRUE
         [] OTHER -> FALSE

\* ValueMatcher::matches, by value type
matches(ty, v, operator, operand) ==
    IF ty = "Vec" THEN matches_vec(v, operator, operand)
    ELSE matches_scalar(ty, v, operator, operand)

\* ValueCondition::evaluate
evaluate(cond, ty, v) ==
    CASE cond.kind = "Value" -> matches_literal(v, cond.value)
      [] cond.kind = "Operator" -> matches(ty, v, cond.operator, cond.value)
      [] cond.kind = "Pattern" -> matches_regex(ty, v, cond.pattern)

\* evaluate_option handing every operator to matches when the value is present
evaluate_option_through_matches(cond, ty, value) ==
    CASE cond.kind = "Value" -> IsSome(value) /\ matches_literal(Unwrap(value), cond.value)
      [] cond.kind = "Operator" ->
             IsSome(value) /\ matches(ty, Unwrap(value), cond.operator, cond.value)
      [] cond.kind = "Pattern" ->
             IsSome(value) /\ matches_regex(ty, Unwrap(value), cond.pattern)

\* ValueCondition::evaluate_option / ValueOperatorCondition::evaluate_option
evaluate_option(cond, ty, value) ==
    CASE cond.kind = "Value" -> IsSome(value) /\ matches_literal(Unwrap(value), cond.value)
      [] cond.kind = "Operator" ->
             CASE cond.operator = "IsEmpty" -> ~IsSome(value)
               [] cond.operator = "Exists" -> IsSome(value)
               [] cond.operator = "MatchAlways" -> TRUE
               [] OTHER -> IsSome(value)
                              /\ matches(ty, Unwrap(value), cond.operator, cond.value)
      [] cond.kind = "Pattern" ->
             IsSome(value) /\ matches_regex(ty, Unwrap(value), cond.pattern)

\* ValueCondition::value / ValueSet::value: the literal or the single operand
condition_value(cond) ==
    CASE cond.kind = "Value" -> Some(cond.value)
      [] cond.kind = "Operator" ->
             IF IsSome(cond.value) /\ Unwrap(cond.value).set = "Single"
             THEN Some(Unwrap(cond.value).value)
             ELSE None
      [] cond.kind = "Pattern" -> None

\* self.field.as_ref().map_or(true, |cond| cond.evaluate(v))
Holds(field, ty, v) == IF IsSome(field) THEN evaluate(Unwrap(field), ty, v) ELSE TRUE

\* self.field.as_ref().map_or(true, |cond| cond.evaluate_option(value))
HoldsOption(field, ty, value) ==
    IF IsSome(field) THEN evaluate_option(Unwrap(field), ty, value) ELSE TRUE

\* ------------------------------------------------------------------ query
\* HomiePropertyFormat: Empty or an integer range; to_string of a range is "min:max"
FormatEmpty == [kind |-> "Empty"]
IntegerRange(min, max) == [kind |-> "IntegerRange", min |-> min, max |-> max]
FormatToString(format) ==
    IF format.kind = "IntegerRange" /\ format.min = 1 /\ format.max = 20 THEN "1:20" ELSE ""

\* PropertyQuery::match_query
property_match_query(q, id, property_desc) ==
    /\ Holds(q.id, "HomieID", id)
    /\ HoldsOption(q.name, "String", property_desc.name)
    /\ Holds(q.datatype, "HomieDataType", property_desc.datatype)
    /\ IF IsSome(q.format)
       THEN IF property_desc.format.kind = "Empty"
            THEN FALSE
            ELSE evaluate(Unwrap(q.format), "String", FormatToString(property_desc.format))
       ELSE TRUE
    /\ Holds(q.settable, "bool", property_desc.settable)
    /\ Holds(q.retained, "bool", property_desc.retained)
    /\ HoldsOption(q.unit, "String", property_desc.unit)

\* NodeQuery::match_query
node_match_query(q, id, node_desc) ==
    /\ Holds(q.id, "HomieID", id)
    /\ HoldsOption(q.name, "String", node_desc.name)
    /\ HoldsOption(q.type, "String", node_desc.type)

\* DeviceQuery::match_query
device_match_query(q, id, device_desc) ==
    /\ Holds(q.id, "HomieID", id)
    /\ HoldsOption(q.name, "String", device_desc.name)
    /\ HoldsOption(q.root, "HomieID", device_desc.root)
    /\ Holds(q.homie, "String", device_desc.homie)
    /\ HoldsOption(q.parent, "HomieID", device_desc.parent)
    /\ Holds(q.version, "i64", device_desc.version)
    /\ Holds(q.children, "Vec", device_desc.children)
    /\ Holds(q.extensions, "Vec", device_desc.extensions)

\* HomieDomain::All, the wildcard domain
DomainAll == "+"

\* PropertyRef::new
PropertyRefNew(domain, id, node_id, prop_id) ==
    [device |-> [domain |-> domain, id |-> id],
     pointer |-> [node |-> node_id, prop |-> prop_id]]

\* the domain and device level of QueryDefinition::match_query
domain_matches(query, domain) ==
    IF IsSome(query.domain)
    THEN LET cond == Unwrap(query.domain)
             v == condition_value(cond)
         IN IF IsSome(v) /\ Unwrap(v) = DomainAll THEN TRUE
            ELSE evaluate(cond, "HomieDomain", domain)
    ELSE TRUE

device_matches(query, id, device_desc) ==
    IF IsSome(query.device) THEN device_match_query(Unwrap(query.device), id, device_desc)
    ELSE TRUE

\* the keys of a map in the order the iteration visits them
KeysInOrder(order, keys) == SelectSeq(order, LAMBDA k : k \in keys)

RECURSIVE Flatten(_)
Flatten(seqs) == IF seqs = <<>> THEN <<>> ELSE Head(seqs) \o Flatten(Tail(seqs))

\* match_query pushing the properties of every node, whatever the node query says
match_query_ignores_node_query(query, domain, id, device_desc, node_order, prop_order) ==
    IF domain_matches(query, domain) /\ device_matches(query, id, device_desc)
    THEN LET nodes == KeysInOrder(node_order, DOMAIN device_desc.nodes)
             pushed(node_id) ==
                 LET node_desc == device_desc.nodes[node_id]
                     props == SelectSeq(KeysInOrder(prop_order, DOMAIN node_desc.properties),
                                  LAMBDA prop_id :
                                      IF IsSome(query.property)
                                      THEN property_match_query(Unwrap(query.property), prop_id,
                                               node_desc.properties[prop_id])
                                      ELSE TRUE)
                 IN [i \in 1..Len(props) |-> PropertyRefNew(domain, id, node_id, props[i])]
         IN Flatten([n \in 1..Len(nodes) |-> pushed(nodes[n])])
    ELSE <<>>

\* QueryDefinition::match_query: the Vec of matched property refs; node_order and
\* prop_order are the orders in which the maps of the description are iterated
match_query(query, domain, id, device_desc, node_order, prop_order) ==
    IF domain_matches(query, domain) /\ device_matches(query, id, device_desc)
    THEN LET nodes == KeysInOrder(node_order, DOMAIN device_desc.nodes)
             pushed(node_id) ==
                 LET node_desc == device_desc.nodes[node_id]
                     props == SelectSeq(KeysInOrder(prop_order, DOMAIN node_desc.properties),
                                  LAMBDA prop_id :
                                      IF IsSome(query.property)
                                      THEN property_match_query(Unwrap(query.property), prop_id,
                                               node_desc.properties[prop_id])
                                      ELSE TRUE)
                 IN IF IF IsSome(query.node)
                       THEN node_match_query(Unwrap(query.node), node_id, node_desc)
                       ELSE TRUE
                    THEN [i \in 1..Len(props) |-> PropertyRefNew(domain, id, node_id, props[i])]
                    ELSE <<>>
         IN Flatten([n \in 1..Len(nodes) |-> pushed(nodes[n])])
    ELSE <<>>

\* ------------------------------------------------------ MaterializedQuery
\* add_materialized that extends mat_refs without purging first
add_materialized_without_purge(refs, query, domain, id, device_desc, node_order, prop_order) ==
    refs \cup Range(match_query(query, domain, id, device_desc, node_order, prop_order))

\* MaterializedQuery::add_materialized: mat_refs afterwards
add_materialized(refs, query, domain, id, device_desc, node_order, prop_order) ==
    LET retained == {prop_ref \in refs : prop_ref.device.id # id}
        new_refs == match_query(query, domain, id, device_desc, node_order, prop_order)
    IN retained \cup Range(new_refs)

\* remove_materialized removing every ref of the device
remove_materialized_whole_device(refs, query, domain, id, device_desc, node_order, prop_order) ==
    {prop_ref \in refs : prop_ref.device # [domain |-> domain, id |-> id]}

\* MaterializedQuery::remove_materialized: mat_refs afterwards
remove_materialized(refs, query, domain, id, device_desc, node_order, prop_order) ==
    LET to_remove == match_query(query, domain, id, device_desc, node_order, prop_order)
    IN refs \ Range(to_remove)

\* MaterializedQuery::match_query
materialized_match_query(refs, prop_ref) == prop_ref \in refs

\* ----------------------------------------------------------- ValueMapping
\* MappingResult<FROM, TO>
Mapped(to) == [kind |-> "Mapped", value |-> to]
Unmapped(from) == [kind |-> "Unmapped", value |-> from]
is_mapped(mapping_result) == mapping_result.kind = "Mapped"

\* ValueMapping::map_to on a value of type ty
mapping_map_to(mapping, ty, value) ==
    IF ~IsSome(mapping.from) THEN Mapped(mapping.to)
    ELSE IF evaluate(Unwrap(mapping.from), ty, value) THEN Mapped(mapping.to)
    ELSE Unmapped(value)

\* map_to of a list keeping the last mapping that maps instead of the first
RECURSIVE mapping_list_map_to_last(_, _, _)
mapping_list_map_to_last(list, ty, value) ==
    IF list = <<>> THEN Unmapped(value)
    ELSE LET to_value == mapping_map_to(list[Len(list)], ty, value)
         IN IF is_mapped(to_value) THEN to_value
            ELSE mapping_list_map_to_last(SubSeq(list, 1, Len(list) - 1), ty, value)

\* ValueMappingList::map_to: iter().map(map_to).find(is_mapped).unwrap_or(Unmapped(value))
RECURSIVE mapping_list_map_to(_, _, _)
mapping_list_map_to(list, ty, value) ==
    IF list = <<>> THEN Unmapped(value)
    ELSE LET to_value == mapping_map_to(Head(list), ty, value)
         IN IF is_mapped(to_value) THEN to_value
            ELSE mapping_list_map_to(Tail(list), ty, value)

\* ------------------------------------------------------------ state machine
NoResult == [ok |-> TRUE, action |-> None, error |-> "none"]

\* nothing observed yet: no subscription, no action, no removal
NoTrack ==
    [dev_subs |-> {}, prop_subs |-> {}, failed |-> FALSE, last_ok |-> TRUE,
     announced |-> {}, described |-> {}, removed |-> [d \in DeviceRefs |-> None],
     fresh_desc |-> {}, fresh_values |-> {}, fresh_alerts |-> {}]

\* HomieDiscovery::new with DeviceStore::new: no message handled yet
DiscoveryInit ==
    /\ devices = EmptyMap
    /\ pre = EmptyMap
    /\ msg = None
    /\ result = NoResult
    /\ calls = <<>>
    /\ steps = 0
    /\ track = NoTrack

\* PropertyValueStore::new, no call made yet
ValuesInit == value_store = EmptyMap /\ value_call = None

\* AlertStore::new, no call made yet
AlertsInit == alert_store = EmptyMap /\ alert_call = None

\* no DeviceStore under inspection, no call made
HierIdle == hier_store = EmptyMap /\ hier_call = None

\* no match_query call made
QueryIdle == query_call = None

\* the discovery engine and the stores before any call
CoreIdle == DiscoveryInit /\ ValuesInit /\ AlertsInit /\ HierIdle /\ QueryIdle

\* no MaterializedQuery in use
MatIdle == mat_query = None /\ mat_refs = {} /\ mat_call = None

\* no map_to call made
MapIdle == map_call = None

\* no condition evaluated
CondIdle == cond_call = None

\* DebouncedSender::new: the task waits for the first event of a burst
DebounceInit ==
    /\ deb_now = 0
    /\ deb_sent = <<>>
    /\ deb_queue = <<>>
    /\ deb_closed = FALSE
    /\ deb_pc = "idle"
    /\ deb_running = FALSE
    /\ deb_pending = 0
    /\ deb_deadline = 0
    /\ deb_delivered = <<>>

\* DelayedSender::new
DelayedInit ==
    /\ del_now = 0
    /\ del_handle = None
    /\ del_tasks = <<>>
    /\ del_target = <<>>
    /\ del_delivered = <<>>
    /\ del_aborts = <<>>

\* the input channels of the multiplexer, by the field that holds the receiver
MuxChannels == {"first", "second"}

\* a next call that has not been made.  Of a call: the deadline of its sleep, whether
\* a channel had an event for it before the deadline, the channels before and after
\* the poll in which it returned, the variant it returned and its event
MuxNoCall ==
    [status |-> "idle", deadline |-> 0, early |-> FALSE,
     before |-> [c \in MuxChannels |-> <<>>], after |-> [c \in MuxChannels |-> <<>>],
     variant |-> "", event |-> 0]

\* a multiplexer on new channels
MuxInit ==
    /\ mux_now = 0
    /\ mux_chan = [c \in MuxChannels |-> <<>>]
    /\ mux_closed = {}
    /\ mux_sent = 0
    /\ mux_call = MuxNoCall

\* the tokio helpers before any call
HelperIdle == DebounceInit /\ DelayedInit /\ MuxInit

\* the components modelled on their own, not in use
AuxIdle == MatIdle /\ MapIdle /\ CondIdle /\ HelperIdle

Init == DiscoveryInit /\ ValuesInit /\ AlertsInit /\ HierIdle /\ QueryIdle /\ AuxIdle

\* one handle_event call on message m, in which the f-th transport call fails
HandleEvent(m, f) ==
    /\ steps < MaxSteps
    /\ LET out == handle_event(m, devices, f)
       IN /\ f <= Len(out.calls)
          /\ devices' = out.devices
          /\ result' = out.result
          /\ calls' = out.calls
    /\ pre' = devices
    /\ msg' = Some(m)
    /\ steps' = steps + 1
    /\ UNCHANGED <<track, valueVars, alertVars, hierVars, queryVars, auxVars>>

OfKind(k) == {m \in Messages : m.kind = k}

DeviceStateMsg == \E m \in OfKind("DeviceState"), f \in FailAt : HandleEvent(m, f)
DeviceDescriptionMsg == \E m \in OfKind("DeviceDescription"), f \in FailAt : HandleEvent(m, f)
PropertyValueMsg == \E m \in OfKind("PropertyValue") : HandleEvent(m, 0)
PropertyTargetMsg == \E m \in OfKind("PropertyTarget") : HandleEvent(m, 0)
DeviceAlertMsg == \E m \in OfKind("DeviceAlert") : HandleEvent(m, 0)
DeviceRemovalMsg == \E m \in OfKind("DeviceRemoval"), f \in FailAt : HandleEvent(m, f)
OtherMsg == \E m \in OfKind("Broadcast") : HandleEvent(m, 0)

Next ==
    \/ DeviceStateMsg
    \/ DeviceDescriptionMsg
    \/ PropertyValueMsg
    \/ PropertyTargetMsg
    \/ DeviceAlertMsg
    \/ DeviceRemovalMsg
    \/ OtherMsg

Spec == Init /\ [][Next]_vars

\* ------------------------------------------- the value store on its own
\* the HomieValues stored, and the alert ids of the alert store on its own
HomieValues == {1, 2}
StoreAlertIds == {"battery", "signal", "update"}

\* one store_value call
StoreValue(p, v) ==
    /\ LET r == store_value(value_store, p, v)
       IN /\ value_store' = r.store
          /\ value_call' = Some([fn |-> "store_value", prop |-> p, arg |-> v,
                                 before |-> value_store, update |-> r.update])
    /\ UNCHANGED <<discoveryVars, alertVars, hierVars, queryVars, auxVars>>

\* one store_target call
StoreTarget(p, t) ==
    /\ LET r == store_target(value_store, p, t)
       IN /\ value_store' = r.store
          /\ value_call' = Some([fn |-> "store_target", prop |-> p, arg |-> t,
                                 before |-> value_store, update |-> r.update])
    /\ UNCHANGED <<discoveryVars, alertVars, hierVars, queryVars, auxVars>>

ValuesNext ==
    \/ \E p \in PropPointers, v \in HomieValues : StoreValue(p, v)
    \/ \E p \in PropPointers, t \in HomieValues : StoreTarget(p, t)

SpecValues == Init /\ [][ValuesNext]_vars

\* ------------------------------------------- the alert store on its own
\* one store_alert call
StoreAlert(id, text) ==
    /\ LET r == alert_store_alert(alert_store, id, text)
       IN /\ alert_store' = r.store
          /\ alert_call' = Some([id |-> id, alert |-> text,
                                 before |-> alert_store, update |-> r.update])
    /\ UNCHANGED <<discoveryVars, valueVars, hierVars, queryVars, auxVars>>

AlertsNext == \E id \in StoreAlertIds, text \in AlertTexts : StoreAlert(id, text)

SpecAlerts == Init /\ [][AlertsNext]_vars

\* ------------------------------------- hierarchy queries on a device store
\* ids of the homie domain, and one device of another domain
HierIds == 1..NumHierDevices
HierRefs == {[domain |-> "homie", id |-> i] : i \in HierIds} \cup {[domain |-> "test", id |-> 1]}

\* descriptions as far as the hierarchy reads them: parent, children, root
HierDesc(parent, children, root) ==
    [version |-> 1, parent |-> parent, children |-> children, root |-> root]
OptionalIds == {None} \cup {Some(i) : i \in HierIds}
HierDescs ==
    {HierDesc(p, c, None) : p \in OptionalIds, c \in {{}, HierIds}}
        \cup {HierDesc(None, {}, Some(r)) : r \in HierIds}

\* what the store holds for one ref: nothing, or a device with a status and maybe a
\* description; the device of the other domain is ready and points at the last homie id
HierChoices(ref) ==
    IF ref.domain = "homie"
    THEN {None} \cup {Some([state |-> s, description |-> d]) :
                         s \in Statuses, d \in {None} \cup {Some(x) : x \in HierDescs}}
    ELSE {None,
          Some([state |-> "ready",
                description |-> Some(HierDesc(Some(NumHierDevices), {}, None))]),
          Some([state |-> "ready",
                description |-> Some(HierDesc(None, {}, Some(NumHierDevices)))])}

\* the store that add and store_description build from one choice per ref
StoreOf(f) ==
    LET present == {r \in DOMAIN f : IsSome(f[r])}
    IN [dom \in {r.domain : r \in present} |->
           [id \in {r.id : r \in {x \in present : x.domain = dom}} |->
               LET ref == [domain |-> dom, id |-> id]
               IN [NewDevice(ref, Unwrap(f[ref]).state)
                      EXCEPT !.description = Unwrap(f[ref]).description]]]

HierInit ==
    /\ DiscoveryInit /\ ValuesInit /\ AlertsInit /\ QueryIdle /\ AuxIdle
    /\ \E f \in [HierRefs -> UNION {HierChoices(r) : r \in HierRefs}] :
           /\ \A r \in HierRefs : f[r] \in HierChoices(r)
           /\ hier_store = StoreOf(f)
    /\ hier_call = None

\* activations of is_orphaned the stack holds; a parent chain that needs more has
\* come back to a device it already visited
StackFrames == NumHierDevices + 1

HierIdleCall == IF IsSome(hier_call) THEN Unwrap(hier_call).status = "returned" ELSE TRUE

\* is_orphaned(device) is called for a device of the store
IsOrphanedCall(d) ==
    /\ HierIdleCall
    /\ contains_device(hier_store, d)
    /\ hier_call' = Some([fn |-> "is_orphaned", device |-> d, frame |-> d, depth |-> 0,
                          status |-> "running", result |-> None, state |-> None])
    /\ UNCHANGED <<hier_store, discoveryVars, valueVars, alertVars, queryVars, auxVars>>

\* the current activation runs: it returns, or calls itself with the parent; once the
\* stack is full only a build that turned the tail call into a jump goes on
IsOrphanedStep ==
    /\ IsSome(hier_call) /\ Unwrap(hier_call).status = "running"
    /\ LET c == Unwrap(hier_call)
           r == is_orphaned(hier_store, Unwrap(get_device(hier_store, c.frame)))
       IN hier_call' = Some(
              IF r.kind = "return"
              THEN [c EXCEPT !.status = "returned", !.result = Some(r.value)]
              ELSE [c EXCEPT !.frame = r.device.ident,
                             !.depth = IF c.depth < StackFrames THEN c.depth + 1 ELSE c.depth])
    /\ UNCHANGED <<hier_store, discoveryVars, valueVars, alertVars, queryVars, auxVars>>

\* the recursion exhausts the stack and the process aborts
StackOverflow ==
    /\ IsSome(hier_call) /\ Unwrap(hier_call).status = "running"
    /\ Unwrap(hier_call).depth = StackFrames
    /\ is_orphaned(hier_store, Unwrap(get_device(hier_store, Unwrap(hier_call).frame))).kind
           = "recurse"
    /\ hier_call' = Some([Unwrap(hier_call) EXCEPT !.status = "aborted"])
    /\ UNCHANGED <<hier_store, discoveryVars, valueVars, alertVars, queryVars, auxVars>>

\* device_state_resolved(devref) is called for any ref
DeviceStateResolvedCall(d) ==
    /\ HierIdleCall
    /\ hier_call' = Some([fn |-> "device_state_resolved", device |-> d, frame |-> d,
                          depth |-> 0, status |-> "returned", result |-> None,
                          state |-> device_state_resolved(hier_store, d)])
    /\ UNCHANGED <<hier_store, discoveryVars, valueVars, alertVars, queryVars, auxVars>>

HierRun == IsOrphanedStep \/ StackOverflow

HierNext ==
    \/ \E d \in HierRefs : IsOrphanedCall(d)
    \/ \E d \in HierRefs : DeviceStateResolvedCall(d)
    \/ HierRun

\* a call that has started keeps running
SpecHierarchy == HierInit /\ [][HierNext]_vars /\ WF_vars(HierRun)

\* -------------------------------------------------- queries on descriptions
\* the domains and device ids match_query is called with
QueryDomains == {"homie", "test"}
QueryDeviceIds == {"device-1", "device-2"}
NodeIds == {"node-1", "node-2"}
PropIds == {"prop-1", "prop-2", "prop-3"}

\* HomiePropertyDescription, HomieNodeDescription, HomieDeviceDescription
PropDesc(datatype, format, settable) ==
    [name |-> None, datatype |-> datatype, format |-> format, settable |-> settable,
     retained |-> TRUE, unit |-> IF datatype = "float" THEN Some("%") ELSE None]

\* a root device: node-1 of type test-type with an integer, a float and a boolean
\* property, node-2 without type with an integer property
QueryDescA ==
    [name |-> Some("Device"), version |-> 1, homie |-> "5.0", children |-> <<"device-2">>,
     root |-> None, parent |-> None, extensions |-> <<>>,
     nodes |-> ("node-1" :> [name |-> Some("Testnode"), type |-> Some("test-type"),
                             properties |->
                                 ("prop-1" :> PropDesc("integer", IntegerRange(1, 20), FALSE))
                                 @@ ("prop-2" :> PropDesc("float", FormatEmpty, TRUE))
                                 @@ ("prop-3" :> PropDesc("boolean", FormatEmpty, FALSE))])
               @@ ("node-2" :> [name |-> Some("Testnode no 2"), type |-> None,
                                properties |->
                                    ("prop-1" :> PropDesc("integer", IntegerRange(1, 20), TRUE))])]

\* a child device with one node of another type
QueryDescB ==
    [name |-> None, version |-> 2, homie |-> "5.0", children |-> <<>>,
     root |-> Some("device-1"), parent |-> Some("device-1"), extensions |-> <<>>,
     nodes |-> ("node-1" :> [name |-> None, type |-> Some("other-type"),
                             properties |->
                                 ("prop-2" :> PropDesc("string", FormatEmpty, TRUE))])]

QueryDescs == {QueryDescA, QueryDescB}

\* PropertyQuery, NodeQuery, DeviceQuery without conditions (Default)
DefaultPropertyQuery ==
    [id |-> None, name |-> None, datatype |-> None, format |-> None, settable |-> None,
     retained |-> None, unit |-> None]
DefaultNodeQuery == [id |-> None, name |-> None, type |-> None]
DefaultDeviceQuery ==
    [id |-> None, name |-> None, version |-> None, homie |-> None, children |-> None,
     root |-> None, parent |-> None, extensions |-> None]

\* the conditions of each level a query is built from (None: the level is absent)
DomainConditions ==
    {None, Some(Literal("homie")), Some(Literal(DomainAll)),
     Some(Operator("NotEqual", Some(Single("homie"))))}
DeviceQueries ==
    {None,
     Some([DefaultDeviceQuery EXCEPT !.id = Some(Literal("device-1"))]),
     Some([DefaultDeviceQuery EXCEPT !.version = Some(Operator("Greater", Some(Single(1))))]),
     Some([DefaultDeviceQuery EXCEPT
              !.children = Some(Operator("IncludesAny", Some(Single(<<"device-2">>)))),
              !.parent = Some(Operator("IsEmpty", None))])}
NodeQueries ==
    {None,
     Some([DefaultNodeQuery EXCEPT !.type = Some(Literal("test-type"))]),
     Some([DefaultNodeQuery EXCEPT !.id = Some(Pattern("^node-1$"))]),
     Some([DefaultNodeQuery EXCEPT !.name = Some(Operator("Exists", None))])}
PropertyQueries ==
    {None,
     Some([DefaultPropertyQuery EXCEPT
              !.datatype = Some(Operator("Equal", Some(Multiple(<<"integer", "float">>))))]),
     Some([DefaultPropertyQuery EXCEPT !.settable = Some(Literal(TRUE))]),
     Some([DefaultPropertyQuery EXCEPT !.format = Some(Operator("Exists", None))]),
     Some([DefaultPropertyQuery EXCEPT !.format = Some(Operator("IsEmpty", None))]),
     Some([DefaultPropertyQuery EXCEPT !.format = Some(Operator("MatchAlways", None))]),
     Some([DefaultPropertyQuery EXCEPT !.id = Some(Literal("prop-1")),
                                       !.unit = Some(Operator("IsEmpty", None))])}

\* QueryDefinition
QueryDefinitions ==
    {[domain |-> dc, device |-> dq, node |-> nq, property |-> pq] :
        dc \in DomainConditions, dq \in DeviceQueries, nq \in NodeQueries,
        pq \in PropertyQueries}

\* the orders in which a map with these keys can be iterated
Orders(keys) ==
    {o \in [1..Cardinality(keys) -> keys] : \A i, j \in DOMAIN o : i # j => o[i] # o[j]}

\* one match_query call
MatchQuery(query, domain, id, device_desc, node_order, prop_order) ==
    /\ ~IsSome(query_call)
    /\ query_call' = Some([query |-> query, domain |-> domain, id |-> id,
                           device_desc |-> device_desc,
                           refs |-> match_query(query, domain, id, device_desc,
                                                node_order, prop_order)])
    /\ UNCHANGED <<discoveryVars, valueVars, alertVars, hierVars, auxVars>>

QueryNext ==
    /\ ~IsSome(query_call)
    /\ \E query \in QueryDefinitions, domain \in QueryDomains, id \in QueryDeviceIds,
          device_desc \in QueryDescs, node_order \in Orders(NodeIds),
          prop_order \in Orders(PropIds) :
           MatchQuery(query, domain, id, device_desc, node_order, prop_order)

SpecQuery == Init /\ [][QueryNext]_vars

\* ------------------------------------------------- a materialized query
\* the queries a MaterializedQuery is built with: no condition, the node type, the
\* levels of the test of QueryDefinition, settable properties of one domain
NoQuery == [domain |-> None, device |-> None, node |-> None, property |-> None]
MatQueries ==
    {NoQuery,
     [NoQuery EXCEPT !.node = Some([DefaultNodeQuery EXCEPT !.type = Some(Literal("test-type"))])],
     [domain |-> Some(Literal("homie")),
      device |-> Some([DefaultDeviceQuery EXCEPT !.id = Some(Literal("device-1"))]),
      node |-> Some([DefaultNodeQuery EXCEPT !.type = Some(Literal("test-type"))]),
      property |-> Some([DefaultPropertyQuery EXCEPT
                            !.datatype = Some(Operator("Equal",
                                                  Some(Multiple(<<"integer", "float">>))))])],
     [NoQuery EXCEPT !.domain = Some(Literal("homie")),
                     !.property = Some([DefaultPropertyQuery EXCEPT
                                           !.settable = Some(Literal(TRUE))])]}

\* the property refs match_query(prop_ref) is asked for
MatPropertyRefs ==
    {PropertyRefNew(domain, id, n, p) :
        domain \in QueryDomains, id \in QueryDeviceIds, n \in NodeIds, p \in PropIds}

\* MaterializedQuery::new
MatInit ==
    /\ CoreIdle /\ MapIdle /\ CondIdle /\ HelperIdle
    /\ mat_query \in {Some(q) : q \in MatQueries}
    /\ mat_refs = {}
    /\ mat_call = None

\* what a call remembers of the call before it
CallBefore ==
    IF IsSome(mat_call)
    THEN Some([fn |-> Unwrap(mat_call).fn, domain |-> Unwrap(mat_call).domain,
               id |-> Unwrap(mat_call).id, device_desc |-> Unwrap(mat_call).device_desc])
    ELSE None

\* one add_materialized call
AddMaterialized(domain, id, device_desc, node_order, prop_order) ==
    /\ mat_refs' = add_materialized(mat_refs, Unwrap(mat_query), domain, id, device_desc,
                                    node_order, prop_order)
    /\ mat_call' = Some([fn |-> "add_materialized", domain |-> domain, id |-> id,
                         device_desc |-> Some(device_desc), prop_ref |-> None,
                         found |-> FALSE, before |-> mat_refs, prev |-> CallBefore])
    /\ UNCHANGED <<mat_query, coreVars, mapVars, condVars, helperVars>>

\* one remove_materialized call
RemoveMaterialized(domain, id, device_desc, node_order, prop_order) ==
    /\ mat_refs' = remove_materialized(mat_refs, Unwrap(mat_query), domain, id, device_desc,
                                       node_order, prop_order)
    /\ mat_call' = Some([fn |-> "remove_materialized", domain |-> domain, id |-> id,
                         device_desc |-> Some(device_desc), prop_ref |-> None,
                         found |-> FALSE, before |-> mat_refs, prev |-> CallBefore])
    /\ UNCHANGED <<mat_query, coreVars, mapVars, condVars, helperVars>>

\* one match_query(prop_ref) call
MaterializedMatchQuery(prop_ref) ==
    /\ mat_call' = Some([fn |-> "match_query", domain |-> prop_ref.device.domain,
                         id |-> prop_ref.device.id, device_desc |-> None,
                         prop_ref |-> Some(prop_ref),
                         found |-> materialized_match_query(mat_refs, prop_ref),
                         before |-> mat_refs, prev |-> CallBefore])
    /\ UNCHANGED <<mat_query, mat_refs, coreVars, mapVars, condVars, helperVars>>

\* mat_refs is a HashSet: the order in which match_query pushed its refs is lost when
\* they are inserted, so one iteration order stands for all
AnOrder(keys) == CHOOSE o \in Orders(keys) : TRUE

MatNext ==
    \/ \E domain \in QueryDomains, id \in QueryDeviceIds, device_desc \in QueryDescs :
           AddMaterialized(domain, id, device_desc, AnOrder(NodeIds), AnOrder(PropIds))
    \/ \E domain \in QueryDomains, id \in QueryDeviceIds, device_desc \in QueryDescs :
           RemoveMaterialized(domain, id, device_desc, AnOrder(NodeIds), AnOrder(PropIds))
    \/ \E prop_ref \in MatPropertyRefs : MaterializedMatchQuery(prop_ref)

SpecMaterialized == MatInit /\ [][MatNext]_vars

\* ------------------------------------------------------ value mapping lists
\* the values mapped and the values mapped to (String to String)
MappingInputs == {"a", "b", "c"}
MappingOutputs == {"first", "second"}

\* the conditions of the mappings (None: the mapping always applies)
MappingConditions ==
    {None, Some(Literal("a")), Some(Literal("b")),
     Some(Operator("Equal", Some(Multiple(<<"b", "c">>))))}

\* ValueMapping<String, String> and ValueMappingList<String, String>
ValueMappings == {[from |-> f, to |-> t] : f \in MappingConditions, t \in MappingOutputs}
ValueMappingLists == UNION {[1..n -> ValueMappings] : n \in 0..MaxMappings}

\* one ValueMappingList::map_to call
MapTo(list, value) ==
    /\ map_call' = Some([list |-> list, value |-> value,
                         result |-> mapping_list_map_to(list, "String", value)])
    /\ UNCHANGED <<coreVars, matVars, condVars, helperVars>>

MappingNext ==
    /\ ~IsSome(map_call)
    /\ \E list \in ValueMappingLists, value \in MappingInputs : MapTo(list, value)

SpecMapping == Init /\ [][MappingNext]_vars

\* ------------------------------------------------- conditions on their own
\* the value types a condition is evaluated on here, and values of each
CondTypes == {"String", "HomieID", "i64", "bool", "Vec"}
VecValues ==
    {<<>>, <<"child1">>, <<"child3">>, <<"child5">>, <<"child1", "child2">>,
     <<"child2", "child1">>, <<"child1", "child4">>, <<"child3", "child3">>,
     <<"child3", "child1">>}
CondValues(ty) ==
    CASE ty = "i64" -> {3, 5, 10}
      [] ty = "bool" -> {TRUE, FALSE}
      [] ty = "Vec" -> VecValues
      [] OTHER -> {"node-1", "node-2", "prop-1"}

\* Option<ValueSet<T>>
Operands(ty) ==
    {None} \cup {Some(Single(v)) : v \in CondValues(ty)}
           \cup {Some(Multiple(vs)) :
                    vs \in UNION {[1..n -> CondValues(ty)] : n \in 0..MaxOperands}}

\* the patterns ("(" does not compile)
CondPatterns == {"^node-1$", "^prop-", "("}

\* ValueCondition<T>
Conditions(ty) ==
    {Literal(v) : v \in CondValues(ty)}
        \cup {Operator(op, operand) : op \in ConditionOperators, operand \in Operands(ty)}
        \cup {Pattern(pattern) : pattern \in CondPatterns}

\* one ValueCondition::evaluate call
Evaluate(ty, cond, v) ==
    /\ cond_call' = Some([fn |-> "evaluate", ty |-> ty, cond |-> cond, value |-> Some(v),
                          result |-> evaluate(cond, ty, v)])
    /\ UNCHANGED <<coreVars, matVars, mapVars, helperVars>>

\* one ValueCondition::evaluate_option call
EvaluateOption(ty, cond, value) ==
    /\ cond_call' = Some([fn |-> "evaluate_option", ty |-> ty, cond |-> cond,
                          value |-> value, result |-> evaluate_option(cond, ty, value)])
    /\ UNCHANGED <<coreVars, matVars, mapVars, helperVars>>

CondNext ==
    /\ ~IsSome(cond_call)
    /\ \E ty \in CondTypes : \E cond \in Conditions(ty) :
           \/ \E v \in CondValues(ty) : Evaluate(ty, cond, v)
           \/ \E value \in {None} \cup {Some(v) : v \in CondValues(ty)} :
                  EvaluateOption(ty, cond, value)

SpecCondition == Init /\ [][CondNext]_vars

\* ------------------------------------------------------- DebouncedSender
\* mpsc::channel::<T>(100)
ChannelCapacity == 100

\* what the other components do while the debouncer runs: nothing
DebounceFrame == UNCHANGED <<coreVars, matVars, mapVars, condVars, delayedVars, muxVars>>

\* the task at pc can go on without waiting: a recv() returns at once when an event is
\* queued or the channel is closed, the timer when its deadline has passed
DebounceReady(pc, queue, deadline) ==
    \/ pc = "idle" /\ (queue # <<>> \/ deb_closed)
    \/ pc = "debouncing" /\ (queue # <<>> \/ deb_closed \/ deb_now >= deadline)

\* DebouncedSender::send: the event is queued for the task; the error of a send to a
\* task that has stopped is ignored
DebouncedSend ==
    /\ ~deb_running
    /\ ~deb_closed
    /\ Len(deb_sent) < MaxSends
    /\ Len(deb_queue) < ChannelCapacity
    /\ deb_sent' = Append(deb_sent, deb_now)
    /\ deb_queue' = IF deb_pc = "stopped" THEN deb_queue
                    ELSE Append(deb_queue, Len(deb_sent) + 1)
    /\ UNCHANGED <<deb_now, deb_closed, deb_pc, deb_running, deb_pending, deb_deadline,
                   deb_delivered>>
    /\ DebounceFrame

\* the DebouncedSender (every clone of it) is dropped: the channel is closed
DebouncedDrop ==
    /\ ~deb_running
    /\ ~deb_closed
    /\ deb_closed' = TRUE
    /\ UNCHANGED <<deb_now, deb_sent, deb_queue, deb_pc, deb_running, deb_pending,
                   deb_deadline, deb_delivered>>
    /\ DebounceFrame

\* while let Some(first_event) = rx.recv().await: a burst starts, the timer is armed
DebounceFirst ==
    /\ deb_pc = "idle"
    /\ deb_queue # <<>>
    /\ deb_pending' = Head(deb_queue)
    /\ deb_queue' = Tail(deb_queue)
    /\ deb_deadline' = deb_now + DebounceDuration
    /\ deb_pc' = "debouncing"
    /\ deb_running' =
           DebounceReady("debouncing", Tail(deb_queue), deb_now + DebounceDuration)
    /\ UNCHANGED <<deb_now, deb_sent, deb_closed, deb_delivered>>
    /\ DebounceFrame

\* the outer rx.recv() returns None: the while loop and the task end
DebounceEnd ==
    /\ deb_pc = "idle"
    /\ deb_queue = <<>> /\ deb_closed
    /\ deb_pc' = "stopped"
    /\ deb_running' = DebounceReady("stopped", deb_queue, deb_deadline)
    /\ UNCHANGED <<deb_now, deb_sent, deb_queue, deb_closed, deb_pending, deb_deadline,
                   deb_delivered>>
    /\ DebounceFrame

\* select!, branch rx.recv() with Some(new_event): the pending event is replaced and
\* the timer reset
DebounceNew ==
    /\ deb_pc = "debouncing"
    /\ deb_queue # <<>>
    /\ deb_pending' = Head(deb_queue)
    /\ deb_queue' = Tail(deb_queue)
    /\ deb_deadline' = deb_now + DebounceDuration
    /\ deb_running' =
           DebounceReady("debouncing", Tail(deb_queue), deb_now + DebounceDuration)
    /\ UNCHANGED <<deb_now, deb_sent, deb_closed, deb_pc, deb_delivered>>
    /\ DebounceFrame

\* select!, branch rx.recv() with None: return
DebounceClosed ==
    /\ deb_pc = "debouncing"
    /\ deb_queue = <<>> /\ deb_closed
    /\ deb_pc' = "stopped"
    /\ deb_running' = DebounceReady("stopped", deb_queue, deb_deadline)
    /\ UNCHANGED <<deb_now, deb_sent, deb_queue, deb_closed, deb_pending, deb_deadline,
                   deb_delivered>>
    /\ DebounceFrame

\* select!, branch timer: break, then target.send(pending_event) on a target that is
\* open and has room.  select! polls its branches in random order: this branch is
\* taken also when rx.recv() is ready.
DebounceTimer ==
    /\ deb_pc = "debouncing"
    /\ deb_now >= deb_deadline
    /\ deb_delivered' = Append(deb_delivered, [event |-> deb_pending, time |-> deb_now,
                                               sends |-> Len(deb_sent)])
    /\ deb_pending' = 0
    /\ deb_pc' = "idle"
    /\ deb_running' = DebounceReady("idle", deb_queue, deb_deadline)
    /\ UNCHANGED <<deb_now, deb_sent, deb_queue, deb_closed, deb_deadline>>
    /\ DebounceFrame

\* time passes while the task waits, also when it has been woken and the runtime has
\* not polled it yet
DebounceTick ==
    /\ ~deb_running
    /\ deb_now < MaxTime
    /\ deb_now' = deb_now + 1
    /\ UNCHANGED <<deb_sent, deb_queue, deb_closed, deb_pc, deb_running, deb_pending, deb_deadline,
                   deb_delivered>>
    /\ DebounceFrame

DebounceNext ==
    \/ DebouncedSend
    \/ DebouncedDrop
    \/ DebounceFirst
    \/ DebounceEnd
    \/ DebounceNew
    \/ DebounceClosed
    \/ DebounceTimer
    \/ DebounceTick

SpecDebounce == Init /\ [][DebounceNext]_vars

\* --------------------------------------------------------- DelayedSender
\* what the other components do while a DelayedSender is used: nothing
DelayedFrame == UNCHANGED <<coreVars, matVars, mapVars, condVars, debounceVars, muxVars>>

\* the task waits in sleep(delay) or in sender.send(task)
Waiting(task) == task.state \in {"sleeping", "sending"}

\* JoinHandle::abort: a task that waits is cancelled, a finished one is left as it is
Aborted(tasks, handle) ==
    IF IsSome(handle) /\ Waiting(tasks[Unwrap(handle)])
    THEN [tasks EXCEPT ![Unwrap(handle)].state = "aborted"]
    ELSE tasks

\* the abort calls made, with this one when it takes a handle: abort returns true
AbortsWith(handle) ==
    IF IsSome(handle)
    THEN Append(del_aborts,
                [task |-> Unwrap(handle),
                 delivered |-> \E k \in 1..Len(del_delivered) :
                                  del_delivered[k].event = Unwrap(handle),
                 returned |-> TRUE])
    ELSE del_aborts

\* schedule spawning the new task without self.abort()
DelayedScheduleNoAbort(delay) ==
    /\ Len(del_tasks) < MaxSchedules
    /\ del_now + delay <= MaxTime
    /\ del_tasks' = Append(del_tasks,
                           [at |-> del_now, due |-> del_now + delay, state |-> "sleeping"])
    /\ del_handle' = Some(Len(del_tasks) + 1)
    /\ UNCHANGED <<del_now, del_target, del_delivered, del_aborts>>
    /\ DelayedFrame

\* DelayedSender::schedule: self.abort(), then the new task is spawned and kept
DelayedSchedule(delay) ==
    /\ Len(del_tasks) < MaxSchedules
    /\ del_now + delay <= MaxTime
    /\ del_tasks' = Append(Aborted(del_tasks, del_handle),
                           [at |-> del_now, due |-> del_now + delay, state |-> "sleeping"])
    /\ del_handle' = Some(Len(del_tasks) + 1)
    /\ del_aborts' = AbortsWith(del_handle)
    /\ UNCHANGED <<del_now, del_target, del_delivered>>
    /\ DelayedFrame

\* the record of an abort call that found no handle (task 0 stands for no task): it
\* returns false
NoHandleAbort == [task |-> 0, delivered |-> FALSE, returned |-> FALSE]

\* DelayedSender::abort: with a handle, the handle is taken, its task aborted and
\* true returned; without one nothing changes and false is returned.  The calls
\* without a handle all give the same record, which is kept once, in front.
DelayedAbort ==
    /\ del_tasks' = Aborted(del_tasks, del_handle)
    /\ del_handle' = None
    /\ del_aborts' = IF IsSome(del_handle) THEN AbortsWith(del_handle)
                     ELSE IF del_aborts # <<>> /\ Head(del_aborts) = NoHandleAbort
                          THEN del_aborts
                          ELSE <<NoHandleAbort>> \o del_aborts
    /\ UNCHANGED <<del_now, del_target, del_delivered>>
    /\ DelayedFrame

\* the task t after sleep(delay): sender.send(task) completes when the channel has
\* room, and waits otherwise
DelayedFire(t) ==
    /\ del_tasks[t].state = "sleeping"
    /\ del_now >= del_tasks[t].due
    /\ IF Len(del_target) < TargetCapacity
       THEN /\ del_target' = Append(del_target, t)
            /\ del_delivered' = Append(del_delivered, [event |-> t, time |-> del_now])
            /\ del_tasks' = [del_tasks EXCEPT ![t].state = "done"]
       ELSE /\ del_tasks' = [del_tasks EXCEPT ![t].state = "sending"]
            /\ UNCHANGED <<del_target, del_delivered>>
    /\ UNCHANGED <<del_now, del_handle, del_aborts>>
    /\ DelayedFrame

\* the task t waiting in sender.send(task): the channel has room again
DelayedSent(t) ==
    /\ del_tasks[t].state = "sending"
    /\ Len(del_target) < TargetCapacity
    /\ del_target' = Append(del_target, t)
    /\ del_delivered' = Append(del_delivered, [event |-> t, time |-> del_now])
    /\ del_tasks' = [del_tasks EXCEPT ![t].state = "done"]
    /\ UNCHANGED <<del_now, del_handle, del_aborts>>
    /\ DelayedFrame

\* the owner of the receiver takes an event from the channel
DelayedReceive ==
    /\ del_target # <<>>
    /\ del_target' = Tail(del_target)
    /\ UNCHANGED <<del_now, del_handle, del_tasks, del_delivered, del_aborts>>
    /\ DelayedFrame

\* time passes
DelayedTick ==
    /\ del_now < MaxTime
    /\ del_now' = del_now + 1
    /\ UNCHANGED <<del_handle, del_tasks, del_target, del_delivered, del_aborts>>
    /\ DelayedFrame

\* a step of one of the spawned tasks
DelayedRun == \E t \in 1..Len(del_tasks) : DelayedFire(t) \/ DelayedSent(t)

DelayedNext ==
    \/ \E delay \in 1..MaxDelay : DelayedSchedule(delay)
    \/ DelayedAbort
    \/ \E t \in 1..Len(del_tasks) : DelayedFire(t)
    \/ \E t \in 1..Len(del_tasks) : DelayedSent(t)
    \/ DelayedReceive
    \/ DelayedTick

\* the runtime polls a task that can go on, the clock advances, and the receiver of
\* the channel is drained
SpecDelayed ==
    /\ Init /\ [][DelayedNext]_vars
    /\ WF_vars(DelayedRun) /\ WF_vars(DelayedTick) /\ WF_vars(DelayedReceive)

\* ------------------------------------------------------- event multiplexer
\* what the other components do while a multiplexer is used: nothing
MuxFrame == UNCHANGED <<coreVars, matVars, mapVars, condVars, debounceVars, delayedVars>>

\* some channel has an event queued
MuxQueued == \E c \in MuxChannels : mux_chan[c] # <<>>

\* select!, branch Some(event) = self.c.recv(): the call returns the variant of channel
\* c with the event at its head
MuxReturnEvent(c) ==
    /\ mux_chan[c] # <<>>
    /\ mux_chan' = [mux_chan EXCEPT ![c] = Tail(mux_chan[c])]
    /\ mux_call' = [mux_call EXCEPT !.status = "returned", !.before = mux_chan,
                                    !.after = mux_chan', !.variant = c,
                                    !.event = Head(mux_chan[c])]

\* select!, branch sleep: the call returns Timeout
MuxReturnTimeout ==
    /\ mux_now >= mux_call.deadline
    /\ UNCHANGED mux_chan
    /\ mux_call' = [mux_call EXCEPT !.status = "returned", !.before = mux_chan,
                                    !.after = mux_chan', !.variant = "Timeout",
                                    !.event = 0]

\* next(timeout) is called and polled for the first time: a branch whose channel has
\* an event queued returns at once (the sleep has just started), otherwise the call
\* waits
MuxCall(timeout) ==
    /\ mux_call.status # "waiting"
    /\ mux_now + timeout <= MaxTime
    /\ IF MuxQueued
       THEN \E c \in MuxChannels :
                /\ mux_chan[c] # <<>>
                /\ mux_chan' = [mux_chan EXCEPT ![c] = Tail(mux_chan[c])]
                /\ mux_call' = [status |-> "returned", deadline |-> mux_now + timeout,
                                early |-> TRUE, before |-> mux_chan, after |-> mux_chan',
                                variant |-> c, event |-> Head(mux_chan[c])]
       ELSE /\ mux_call' = [MuxNoCall EXCEPT !.status = "waiting",
                                             !.deadline = mux_now + timeout]
            /\ UNCHANGED mux_chan
    /\ UNCHANGED <<mux_now, mux_closed, mux_sent>>
    /\ MuxFrame

\* the waiting call is polled again: select! polls its branches in random order and
\* takes the first that is ready, the branch of a channel with an event queued or the
\* sleep when the timeout has passed.  The branch of a closed and empty channel is
\* disabled; the sleep branch never is, so `else` is not reached.
MuxPoll ==
    /\ mux_call.status = "waiting"
    /\ \/ \E c \in MuxChannels : MuxReturnEvent(c)
       \/ MuxReturnTimeout
    /\ UNCHANGED <<mux_now, mux_closed, mux_sent>>
    /\ MuxFrame

\* a sender of channel c sends an event: the n-th event sent is event n
MuxSend(c) ==
    /\ c \notin mux_closed
    /\ mux_sent < MaxEvents
    /\ mux_sent' = mux_sent + 1
    /\ mux_chan' = [mux_chan EXCEPT ![c] = Append(mux_chan[c], mux_sent + 1)]
    /\ mux_call' = IF mux_call.status = "waiting" /\ mux_now < mux_call.deadline
                   THEN [mux_call EXCEPT !.early = TRUE]
                   ELSE mux_call
    /\ UNCHANGED <<mux_now, mux_closed>>
    /\ MuxFrame

\* the senders of channel c are dropped
MuxClose(c) ==
    /\ c \notin mux_closed
    /\ mux_closed' = mux_closed \cup {c}
    /\ UNCHANGED <<mux_now, mux_chan, mux_sent, mux_call>>
    /\ MuxFrame

\* time passes, also when the call has been woken and the runtime has not polled it
\* yet
MuxTick ==
    /\ mux_now < MaxTime
    /\ mux_now' = mux_now + 1
    /\ UNCHANGED <<mux_chan, mux_closed, mux_sent, mux_call>>
    /\ MuxFrame

MuxNext ==
    \/ \E timeout \in 1..MaxTimeout : MuxCall(timeout)
    \/ MuxPoll
    \/ \E c \in MuxChannels : MuxSend(c)
    \/ \E c \in MuxChannels : MuxClose(c)
    \/ MuxTick

SpecMultiplexer == Init /\ [][MuxNext]_vars

\* ------------------------------------------------------------------ claims
\* the last handle_event was given a message of kind k
IsMsg(k) == IsSome(msg) /\ Unwrap(msg).kind = k
\* the transport calls of the last handle_event without their outcome
Issued == [i \in 1..Len(calls) |-> [op |-> calls[i].op, device |-> calls[i].device,
                                     desc |-> calls[i].desc]]
AllOkBut(n) == \A i \in 1..Len(calls) : i # n => calls[i].ok
Returned(action) == result = [ok |-> TRUE, action |-> action, error |-> "none"]
Failed(error) == result = [ok |-> FALSE, action |-> None, error |-> error]
\* devices other than d are as they were before the last handle_event
OthersKept(d) == \A o \in DeviceRefs \ {d} : get_device(devices, o) = get_device(pre, o)
IsPrefix(a, b) == Len(a) <= Len(b) /\ \A i \in 1..Len(a) : a[i] = b[i]

\* C1: on a device status message, subscribe-to-device is issued exactly when the
\* device was absent, and NewDevice is returned only after that call succeeded;
\* a known device with another status gives StateChanged{from: old, to: new} and
\* an unchanged status gives no action, both without any transport call.
C1_StatusMessage ==
    IsMsg("DeviceState") =>
        LET m == Unwrap(msg)
            old == get_device(pre, m.device)
            sub == [op |-> "subscribe_device", device |-> m.device, desc |-> None]
            new_device == Some([kind |-> "NewDevice", device |-> m.device, status |-> m.state])
        IN /\ ~IsSome(old) <=> Issued = <<sub>>
           /\ IsSome(old) => calls = <<>>
           /\ ~IsSome(old) => IF calls[1].ok THEN Returned(new_device) ELSE Failed("MqttClient")
           /\ result.action = new_device => ~IsSome(old) /\ Issued = <<sub>> /\ calls[1].ok
           /\ (IsSome(old) /\ Unwrap(old).state # m.state) =>
                  Returned(Some([kind |-> "StateChanged", device |-> m.device,
                                 from |-> Unwrap(old).state, to |-> m.state]))
           /\ (IsSome(old) /\ Unwrap(old).state = m.state) => Returned(None)

C1_Witness ==
    /\ IsMsg("DeviceState")
    /\ ~contains_device(pre, Unwrap(msg).device)
    /\ Len(calls) = 1 /\ calls[1].op = "subscribe_device" /\ calls[1].ok
    /\ IsSome(result.action) /\ Unwrap(result.action).kind = "NewDevice"

\* C2: a description with a new version for a known device makes handle_event issue
\* unsubscribe-from-properties for the old description (only if there was one), then
\* subscribe-to-properties for the new one, and return DeviceDescriptionChanged only
\* after both; no unsubscribe-from-properties is ever issued after a subscribe.
C2_DescriptionOrdering ==
    /\ \A i, j \in 1..Len(calls) :
           (i < j /\ calls[i].op = "subscribe_props") => calls[j].op # "unsubscribe_props"
    /\ IsMsg("DeviceDescription") =>
        LET m == Unwrap(msg)
            old == get_device(pre, m.device)
            prior == Unwrap(old).description
            unsub == [op |-> "unsubscribe_props", device |-> m.device, desc |-> prior]
            sub == [op |-> "subscribe_props", device |-> m.device,
                    desc |-> Some(m.description)]
            expected == IF IsSome(prior) THEN <<unsub, sub>> ELSE <<sub>>
            changed == Some([kind |-> "DeviceDescriptionChanged", device |-> m.device])
        IN /\ (IsSome(old) /\ (~IsSome(prior) \/ Unwrap(prior).version # m.description.version)) =>
                  /\ Issued # <<>> /\ IsPrefix(Issued, expected)
                  /\ AllOkBut(Len(calls))
                  /\ IF Issued = expected /\ calls[Len(calls)].ok
                     THEN Returned(changed)
                     ELSE Failed("MqttClient")
           /\ result.action = changed =>
                  /\ IsSome(old)
                  /\ ~IsSome(prior) \/ Unwrap(prior).version # m.description.version
                  /\ Issued = expected /\ AllOkBut(0)

C2_Witness ==
    /\ IsMsg("DeviceDescription")
    /\ Len(calls) = 2
    /\ calls[1].op = "unsubscribe_props" /\ calls[1].ok
    /\ calls[1].desc = Unwrap(get_device(pre, Unwrap(msg).device)).description
    /\ calls[2].op = "subscribe_props" /\ calls[2].ok
    /\ calls[2].desc = Some(Unwrap(msg).description)
    /\ IsSome(result.action) /\ Unwrap(result.action).kind = "DeviceDescriptionChanged"

\* C3: when a transport call of handle_event fails, handle_event returns the transport
\* error and no action, no further call is issued, and the store keeps the mutation made
\* before the failing call: the device a status message added, the description a
\* description message installed, the removal done before a failed
\* unsubscribe-from-properties; a failed unsubscribe-from-device leaves the device in
\* the store.
C3_FailureNotRolledBack ==
    /\ \A i \in 1..Len(calls) : ~calls[i].ok => i = Len(calls)
    /\ (calls # <<>> /\ ~calls[Len(calls)].ok) <=> Failed("MqttClient")
    /\ (calls # <<>> /\ ~calls[Len(calls)].ok) =>
        LET m == Unwrap(msg)
            failed == calls[Len(calls)]
        IN CASE m.kind = "DeviceState" ->
                    /\ ~contains_device(pre, m.device)
                    /\ get_device(devices, m.device) = Some(NewDevice(m.device, m.state))
                    /\ OthersKept(m.device)
             [] m.kind = "DeviceDescription" ->
                    /\ contains_device(pre, m.device)
                    /\ Unwrap(get_device(pre, m.device)).description # Some(m.description)
                    /\ get_device(devices, m.device) =
                           Some([Unwrap(get_device(pre, m.device))
                                    EXCEPT !.description = Some(m.description)])
                    /\ failed.op = "unsubscribe_props" =>
                           \A i \in 1..Len(calls) : calls[i].op # "subscribe_props"
                    /\ OthersKept(m.device)
             [] m.kind = "DeviceRemoval" ->
                    /\ failed.op = "unsubscribe_device" =>
                           Len(calls) = 1 /\ devices = pre
                    /\ failed.op = "unsubscribe_props" =>
                           /\ contains_device(pre, m.device)
                           /\ ~contains_device(devices, m.device)
                           /\ OthersKept(m.device)
                    /\ failed.op \in {"unsubscribe_device", "unsubscribe_props"}
             [] OTHER -> FALSE

C3_Witness ==
    /\ IsMsg("DeviceRemoval")
    /\ Len(calls) = 2 /\ calls[2].op = "unsubscribe_props" /\ ~calls[2].ok
    /\ contains_device(pre, Unwrap(msg).device)
    /\ ~contains_device(devices, Unwrap(msg).device)
    /\ ~result.ok /\ result.error = "MqttClient"

\* C4: a description message for a device that is not in the store is answered with
\* the DescriptionForNonExistingDevice error, changes nothing in the store and issues
\* no transport call; a status message for that device handled right after it still
\* discovers the device as new.
C4_DescriptionForUnknownDevice ==
    /\ [](IsMsg("DeviceDescription") =>
            (~contains_device(pre, Unwrap(msg).device) <=>
                 Failed("DescriptionForNonExistingDevice")))
    /\ [](Failed("DescriptionForNonExistingDevice") => devices = pre /\ calls = <<>>)
    /\ [][(/\ Failed("DescriptionForNonExistingDevice")
           /\ IsMsg("DeviceState")'
           /\ Unwrap(msg').device = Unwrap(msg).device
           /\ result'.ok)
          => result'.action = Some([kind |-> "NewDevice", device |-> Unwrap(msg).device,
                                    status |-> Unwrap(msg').state])]_vars

C4_Witness ==
    /\ IsMsg("DeviceDescription")
    /\ ~contains_device(pre, Unwrap(msg).device)
    /\ pre # EmptyMap
    /\ devices = pre
    /\ ~result.ok /\ result.error = "DescriptionForNonExistingDevice"

\* C5: a removal message makes handle_event issue unsubscribe-from-device first, remove
\* the device only after that call succeeded, and issue unsubscribe-from-properties
\* only if a device was removed and it held a description; it never returns an action,
\* and no handle_event ever returns DeviceRemoved.
C5_RemovalMessage ==
    /\ IsSome(result.action) => Unwrap(result.action).kind # "DeviceRemoved"
    /\ IsMsg("DeviceRemoval") =>
        LET m == Unwrap(msg)
            old == get_device(pre, m.device)
            unsub_dev == [op |-> "unsubscribe_device", device |-> m.device, desc |-> None]
            unsub_props == [op |-> "unsubscribe_props", device |-> m.device,
                            desc |-> Unwrap(old).description]
        IN /\ result.action = None
           /\ Issued # <<>> /\ Issued[1] = unsub_dev
           /\ IF calls[1].ok
              THEN /\ ~contains_device(devices, m.device)
                   /\ Issued = IF IsSome(old) /\ IsSome(Unwrap(old).description)
                               THEN <<unsub_dev, unsub_props>>
                               ELSE <<unsub_dev>>
                   /\ calls[Len(calls)].ok => Returned(None)
              ELSE devices = pre /\ Len(calls) = 1
           /\ OthersKept(m.device)

C5_Witness ==
    /\ IsMsg("DeviceRemoval")
    /\ contains_device(pre, Unwrap(msg).device)
    /\ ~contains_device(devices, Unwrap(msg).device)
    /\ Len(calls) = 2 /\ calls[1].op = "unsubscribe_device" /\ calls[2].op = "unsubscribe_props"
    /\ calls[2].ok
    /\ Returned(None)

\* the property description a value / target message resolves to in the store it found:
\* None when the device is unknown, has no description, or the description lacks it
Resolved(property) ==
    LET dev == get_device(pre, property.device)
    IN IF IsSome(dev) /\ IsSome(Unwrap(dev).description)
          /\ property.pointer \in DOMAIN Unwrap(Unwrap(dev).description).props
       THEN Some(Unwrap(Unwrap(dev).description).props[property.pointer])
       ELSE None
\* the value entry of a property in a store (the default entry when it has none)
EntryIn(store, property) ==
    LET dev == get_device(store, property.device)
    IN IF IsSome(dev) /\ property.pointer \in DOMAIN Unwrap(dev).prop_values
       THEN Unwrap(dev).prop_values[property.pointer]
       ELSE DefaultEntry
\* payloads that are integers, and the integer each one denotes
IsInteger(raw) == raw \in {"1", "2"}
IntegerOf(raw) == IF raw = "1" THEN 1 ELSE 2
\* the device of the property is as it was but for its value store
OnlyValuesChanged(property) ==
    /\ [Unwrap(get_device(devices, property.device)) EXCEPT !.prop_values = EmptyMap]
           = [Unwrap(get_device(pre, property.device)) EXCEPT !.prop_values = EmptyMap]
    /\ \A q \in PropPointers \ {property.pointer} :
           EntryIn(devices, [property EXCEPT !.pointer = q])
               = EntryIn(pre, [property EXCEPT !.pointer = q])
    /\ OthersKept(property.device)

\* C6: a parsed value for a retained property is stored, and
\* DevicePropertyValueChanged{from: previous value or None, to: new} is returned iff the
\* stored value changed (nothing when equal); a parsed value for a property that is not
\* retained always returns DevicePropertyValueTriggered and leaves the store unchanged.
C6_PropertyValue ==
    (IsMsg("PropertyValue") /\ IsSome(Resolved(Unwrap(msg).property))
        /\ IsInteger(Unwrap(msg).value)) =>
        LET m == Unwrap(msg)
            v == IntegerOf(m.value)
            before == EntryIn(pre, m.property).value
        IN /\ calls = <<>>
           /\ IF Unwrap(Resolved(m.property)).retained
              THEN /\ EntryIn(devices, m.property).value = Some(v)
                   /\ EntryIn(devices, m.property).target = EntryIn(pre, m.property).target
                   /\ OnlyValuesChanged(m.property)
                   /\ IF before = Some(v)
                      THEN Returned(None)
                      ELSE Returned(Some([kind |-> "DevicePropertyValueChanged",
                                          prop |-> m.property, from |-> before, to |-> v]))
              ELSE /\ Returned(Some([kind |-> "DevicePropertyValueTriggered",
                                     prop |-> m.property, value |-> v]))
                   /\ devices = pre

C6_Witness ==
    /\ IsMsg("PropertyValue")
    /\ IsSome(Resolved(Unwrap(msg).property)) /\ Unwrap(Resolved(Unwrap(msg).property)).retained
    /\ IsSome(EntryIn(pre, Unwrap(msg).property).value)
    /\ IsSome(result.action)
    /\ Unwrap(result.action).kind = "DevicePropertyValueChanged"
    /\ Unwrap(result.action).from = EntryIn(pre, Unwrap(msg).property).value
    /\ Some(Unwrap(result.action).to) = EntryIn(devices, Unwrap(msg).property).value

\* C7: a property value or target message whose payload does not parse, or whose
\* device is unknown, has no description, or whose description lacks the property,
\* returns no action and no error and leaves the store unchanged.
C7_UnresolvableAbsorbed ==
    (IsMsg("PropertyValue") \/ IsMsg("PropertyTarget")) =>
        LET m == Unwrap(msg)
            raw == IF m.kind = "PropertyValue" THEN m.value ELSE m.target
        IN (~IsInteger(raw) \/ ~IsSome(Resolved(m.property))) =>
               Returned(None) /\ devices = pre /\ calls = <<>>

C7_Witness ==
    /\ IsMsg("PropertyValue")
    /\ IsSome(Resolved(Unwrap(msg).property))
    /\ ~IsInteger(Unwrap(msg).value)
    /\ Returned(None) /\ devices = pre

\* C8: a parsed target is stored whether or not the property is retained,
\* DevicePropertyTargetChanged{from: previous target or None, to: new} is returned iff
\* the stored target changed (nothing when equal), and the property's value is untouched.
C8_PropertyTarget ==
    (IsMsg("PropertyTarget") /\ IsSome(Resolved(Unwrap(msg).property))
        /\ IsInteger(Unwrap(msg).target)) =>
        LET m == Unwrap(msg)
            t == IntegerOf(m.target)
            before == EntryIn(pre, m.property).target
        IN /\ calls = <<>>
           /\ EntryIn(devices, m.property).target = Some(t)
           /\ EntryIn(devices, m.property).value = EntryIn(pre, m.property).value
           /\ OnlyValuesChanged(m.property)
           /\ IF before = Some(t)
              THEN Returned(None)
              ELSE Returned(Some([kind |-> "DevicePropertyTargetChanged",
                                  prop |-> m.property, from |-> before, to |-> t]))

C8_Witness ==
    /\ IsMsg("PropertyTarget")
    /\ IsSome(Resolved(Unwrap(msg).property)) /\ ~Unwrap(Resolved(Unwrap(msg).property)).retained
    /\ IsSome(EntryIn(pre, Unwrap(msg).property).target)
    /\ IsSome(result.action)
    /\ Unwrap(result.action).kind = "DevicePropertyTargetChanged"
    /\ Unwrap(result.action).from = EntryIn(pre, Unwrap(msg).property).target
    /\ EntryIn(devices, Unwrap(msg).property).target = Some(Unwrap(result.action).to)

\* C9: an alert message for a known device is applied to its alert store and returns
\* DeviceAlert for a new alert, DeviceAlertChanged{from_alert: old, to_alert: new} for a
\* changed text, DeviceAlertCleared when an empty text removes the alert, and nothing
\* when the text is equal or an absent alert is cleared; for an unknown device it
\* returns nothing and changes nothing.
C9_AlertMessage ==
    IsMsg("DeviceAlert") =>
        LET m == Unwrap(msg)
            old == get_device(pre, m.device)
            before == Unwrap(old).alerts
            after == Unwrap(get_device(devices, m.device)).alerts
            had == m.alert_id \in DOMAIN before
        IN /\ calls = <<>>
           /\ ~IsSome(old) => Returned(None) /\ devices = pre
           /\ IsSome(old) =>
                /\ [Unwrap(get_device(devices, m.device)) EXCEPT !.alerts = EmptyMap]
                       = [Unwrap(old) EXCEPT !.alerts = EmptyMap]
                /\ OthersKept(m.device)
                /\ \A a \in (DOMAIN before \cup DOMAIN after) \ {m.alert_id} :
                       a \in DOMAIN before /\ a \in DOMAIN after /\ before[a] = after[a]
                /\ IF m.alert_msg = ""
                   THEN m.alert_id \notin DOMAIN after
                   ELSE m.alert_id \in DOMAIN after /\ after[m.alert_id] = m.alert_msg
                /\ CASE m.alert_msg = "" /\ had ->
                            Returned(Some([kind |-> "DeviceAlertCleared", device |-> m.device,
                                           alert_id |-> m.alert_id]))
                     [] m.alert_msg = "" /\ ~had -> Returned(None)
                     [] m.alert_msg # "" /\ ~had ->
                            Returned(Some([kind |-> "DeviceAlert", device |-> m.device,
                                           alert_id |-> m.alert_id, alert |-> m.alert_msg]))
                     [] m.alert_msg # "" /\ had /\ before[m.alert_id] # m.alert_msg ->
                            Returned(Some([kind |-> "DeviceAlertChanged", device |-> m.device,
                                           alert_id |-> m.alert_id,
                                           from_alert |-> before[m.alert_id],
                                           to_alert |-> m.alert_msg]))
                     [] OTHER -> Returned(None)

C9_Witness ==
    /\ IsMsg("DeviceAlert")
    /\ IsSome(result.action)
    /\ Unwrap(result.action).kind = "DeviceAlertChanged"
    /\ Unwrap(result.action).from_alert # Unwrap(result.action).to_alert
    /\ Unwrap(get_device(devices, Unwrap(msg).device)).alerts[Unwrap(msg).alert_id]
           = Unwrap(result.action).to_alert

\* C10: DeviceStore.add(ref, status) on any store the engine reaches: an absent device is
\* created with the status, no description and empty value and alert stores (Added); a
\* device with another status gets the new status (StateUpdate{from: old, to: new}); a
\* device with the same status leaves the store unchanged (NoChange); no other device
\* is touched.
C10_Add ==
    \A d \in DeviceRefs, s \in Statuses :
        LET r == add(devices, d, s)
            old == get_device(devices, d)
        IN /\ \A o \in DeviceRefs \ {d} : get_device(r.store, o) = get_device(devices, o)
           /\ ~IsSome(old) =>
                /\ r.update = [kind |-> "Added", device |-> d]
                /\ get_device(r.store, d) =
                       Some([ident |-> d, state |-> s, description |-> None,
                             prop_values |-> EmptyMap, alerts |-> EmptyMap])
           /\ (IsSome(old) /\ Unwrap(old).state # s) =>
                /\ r.update = [kind |-> "StateUpdate", device |-> d,
                               from |-> Unwrap(old).state, to |-> s]
                /\ get_device(r.store, d) = Some([Unwrap(old) EXCEPT !.state = s])
           /\ (IsSome(old) /\ Unwrap(old).state = s) =>
                r.update = [kind |-> "NoChange"] /\ r.store = devices

C10_Witness ==
    /\ IsMsg("DeviceState")
    /\ contains_device(pre, Unwrap(msg).device)
    /\ IsSome(Unwrap(get_device(pre, Unwrap(msg).device)).description)
    /\ Unwrap(get_device(pre, Unwrap(msg).device)).state # Unwrap(msg).state
    /\ Unwrap(get_device(devices, Unwrap(msg).device)).state = Unwrap(msg).state
    /\ IsSome(result.action) /\ Unwrap(result.action).kind = "StateChanged"

\* C11: DeviceStore.store_description on a device of any store the engine reaches: when
\* the device holds no description, or one of another version, the submitted description
\* replaces it wholesale and the result is Update{from: the previous description or
\* None, to: the submitted one}; nothing else in the store changes.
C11_StoreDescriptionReplaces ==
    \A d \in DeviceRefs, desc \in Descriptions :
        LET r == store_description(devices, d, desc)
            old == get_device(devices, d)
            prior == Unwrap(old).description
        IN (IsSome(old) /\ (~IsSome(prior) \/ Unwrap(prior).version # desc.version)) =>
               /\ r.update = [kind |-> "Update", device |-> d, from |-> prior, to |-> desc]
               /\ get_device(r.store, d) = Some([Unwrap(old) EXCEPT !.description = Some(desc)])
               /\ \A o \in DeviceRefs \ {d} : get_device(r.store, o) = get_device(devices, o)

C11_Witness ==
    /\ IsMsg("DeviceDescription")
    /\ contains_device(pre, Unwrap(msg).device)
    /\ IsSome(Unwrap(get_device(pre, Unwrap(msg).device)).description)
    /\ Unwrap(Unwrap(get_device(pre, Unwrap(msg).device)).description).version
           # Unwrap(msg).description.version
    /\ Unwrap(get_device(devices, Unwrap(msg).device)).description = Some(Unwrap(msg).description)
    /\ Unwrap(get_device(pre, Unwrap(msg).device)).alerts # EmptyMap

\* C12: a description whose version equals the stored description's version is a no-op
\* even when its content differs: store_description returns NoChange and leaves the store
\* as it is, and handle_event returns no action and issues no transport call.
C12_EqualVersionNoOp ==
    /\ \A d \in DeviceRefs, desc \in Descriptions :
           LET r == store_description(devices, d, desc)
               old == get_device(devices, d)
           IN (IsSome(old) /\ IsSome(Unwrap(old).description)
                   /\ Unwrap(Unwrap(old).description).version = desc.version) =>
                  r.update = [kind |-> "NoChange"] /\ r.store = devices
    /\ IsMsg("DeviceDescription") =>
           LET m == Unwrap(msg)
               old == get_device(pre, m.device)
           IN (IsSome(old) /\ IsSome(Unwrap(old).description)
                   /\ Unwrap(Unwrap(old).description).version = m.description.version) =>
                  Returned(None) /\ calls = <<>> /\ devices = pre

C12_Witness ==
    /\ IsMsg("DeviceDescription")
    /\ contains_device(pre, Unwrap(msg).device)
    /\ IsSome(Unwrap(get_device(pre, Unwrap(msg).device)).description)
    /\ Unwrap(Unwrap(get_device(pre, Unwrap(msg).device)).description) # Unwrap(msg).description
    /\ Unwrap(Unwrap(get_device(pre, Unwrap(msg).device)).description).version
           = Unwrap(msg).description.version
    /\ devices = pre /\ Returned(None) /\ calls = <<>>

\* C13: DeviceStore.remove_device(ref) on any store the engine reaches: a device that
\* exists is evicted and handed out as it was (status, description, values, alerts) and
\* contains_device(ref) is false afterwards; for a device that does not exist the result
\* is NotFound and the store is unchanged; no other device is affected.
C13_RemoveDevice ==
    \A d \in DeviceRefs :
        LET r == remove_device(devices, d)
            old == get_device(devices, d)
        IN /\ \A o \in DeviceRefs \ {d} : get_device(r.store, o) = get_device(devices, o)
           /\ ~contains_device(r.store, d)
           /\ r.removed = old
           /\ ~IsSome(old) => r.store = devices

C13_Witness ==
    /\ IsMsg("DeviceRemoval")
    /\ contains_device(pre, Unwrap(msg).device)
    /\ IsSome(Unwrap(get_device(pre, Unwrap(msg).device)).description)
    /\ ~contains_device(devices, Unwrap(msg).device)
    /\ \E o \in DeviceRefs \ {Unwrap(msg).device} :
           contains_device(pre, o) /\ get_device(devices, o) = get_device(pre, o)
    /\ Len(calls) = 2 /\ calls[2].desc = Unwrap(get_device(pre, Unwrap(msg).device)).description

\* the value and the target a store holds for a property (None without an entry)
ValueOf(pv, p) == IF p \in DOMAIN pv THEN pv[p].value ELSE None
TargetOf(pv, p) == IF p \in DOMAIN pv THEN pv[p].target ELSE None

\* C14: store_value(p, v) returns Equal iff the stored value of p already is v, otherwise
\* Changed{old: the previous value (None on a first write or when only a target was
\* stored), new: v}; afterwards get_value_entry(p).value is Some(v) and an identical
\* second store_value(p, v) returns Equal.
C14_StoreValueRoundTrip ==
    (IsSome(value_call) /\ Unwrap(value_call).fn = "store_value") =>
        LET c == Unwrap(value_call)
            old == ValueOf(c.before, c.prop)
        IN /\ c.update = IF old = Some(c.arg)
                         THEN [kind |-> "Equal"]
                         ELSE [kind |-> "Changed", old |-> old, new |-> c.arg]
           /\ IsSome(get_value_entry(value_store, c.prop))
           /\ Unwrap(get_value_entry(value_store, c.prop)).value = Some(c.arg)
           /\ store_value(value_store, c.prop, c.arg).update = [kind |-> "Equal"]

C14_Witness ==
    /\ IsSome(value_call) /\ Unwrap(value_call).fn = "store_value"
    /\ IsSome(ValueOf(Unwrap(value_call).before, Unwrap(value_call).prop))
    /\ IsSome(TargetOf(Unwrap(value_call).before, Unwrap(value_call).prop))
    /\ Unwrap(value_call).update.kind = "Changed"
    /\ Unwrap(value_call).update.old = ValueOf(Unwrap(value_call).before, Unwrap(value_call).prop)
    /\ ValueOf(value_store, Unwrap(value_call).prop) = Some(Unwrap(value_call).arg)

\* C15: store_target(p, t) follows the Equal/Changed contract against the target of p and
\* leaves the value of p alone, store_value leaves the target of p alone, and neither
\* changes the entry of another property.
C15_ValueTargetIndependent ==
    IsSome(value_call) =>
        LET c == Unwrap(value_call)
        IN /\ \A q \in PropPointers \ {c.prop} :
                  get_value_entry(value_store, q) = get_value_entry(c.before, q)
           /\ c.fn = "store_value" =>
                  TargetOf(value_store, c.prop) = TargetOf(c.before, c.prop)
           /\ c.fn = "store_target" =>
                  /\ ValueOf(value_store, c.prop) = ValueOf(c.before, c.prop)
                  /\ TargetOf(value_store, c.prop) = Some(c.arg)
                  /\ c.update = IF TargetOf(c.before, c.prop) = Some(c.arg)
                                THEN [kind |-> "Equal"]
                                ELSE [kind |-> "Changed", old |-> TargetOf(c.before, c.prop),
                                      new |-> c.arg]

C15_Witness ==
    /\ IsSome(value_call) /\ Unwrap(value_call).fn = "store_target"
    /\ IsSome(ValueOf(Unwrap(value_call).before, Unwrap(value_call).prop))
    /\ IsSome(TargetOf(Unwrap(value_call).before, Unwrap(value_call).prop))
    /\ \E q \in PropPointers \ {Unwrap(value_call).prop} : q \in DOMAIN value_store
    /\ Unwrap(value_call).update.kind = "Changed"
    /\ ValueOf(value_store, Unwrap(value_call).prop)
           = ValueOf(Unwrap(value_call).before, Unwrap(value_call).prop)

\* C16: every store_alert(id, text) of a sequence of calls returns Cleared{id} and removes
\* id when text is empty and id was present, NoChange when text is empty and id was
\* absent, New{id, alert} and inserts when text is not empty and id was absent, Equal
\* when id holds the same text, Changed{id, old, new} and replaces when id holds another
\* text; the store never holds an empty text.
C16_AlertLifecycle ==
    /\ \A id \in DOMAIN alert_store : alert_store[id] # ""
    /\ IsSome(alert_call) =>
        LET c == Unwrap(alert_call)
            had == c.id \in DOMAIN c.before
        IN /\ \A o \in StoreAlertIds \ {c.id} :
                  /\ o \in DOMAIN alert_store <=> o \in DOMAIN c.before
                  /\ o \in DOMAIN alert_store => alert_store[o] = c.before[o]
           /\ CASE c.alert = "" /\ had ->
                       /\ c.update = [kind |-> "Cleared", id |-> c.id]
                       /\ c.id \notin DOMAIN alert_store
                [] c.alert = "" /\ ~had ->
                       /\ c.update = [kind |-> "NoChange"]
                       /\ alert_store = c.before
                [] c.alert # "" /\ ~had ->
                       /\ c.update = [kind |-> "New", id |-> c.id, alert |-> c.alert]
                       /\ c.id \in DOMAIN alert_store /\ alert_store[c.id] = c.alert
                [] c.alert # "" /\ had /\ c.before[c.id] = c.alert ->
                       /\ c.update = [kind |-> "Equal"]
                       /\ alert_store = c.before
                [] OTHER ->
                       /\ c.update = [kind |-> "Changed", id |-> c.id,
                                      old_alert |-> c.before[c.id], new_alert |-> c.alert]
                       /\ c.id \in DOMAIN alert_store /\ alert_store[c.id] = c.alert

C16_Witness ==
    /\ IsSome(alert_call)
    /\ Unwrap(alert_call).alert = ""
    /\ Unwrap(alert_call).id \in DOMAIN Unwrap(alert_call).before
    /\ Unwrap(alert_call).update.kind = "Cleared"
    /\ Unwrap(alert_call).id \notin DOMAIN alert_store
    /\ alert_store # EmptyMap

\* where the last call on the hierarchy store stands
HierStatus == IF IsSome(hier_call) THEN Unwrap(hier_call).status ELSE "idle"

\* the last call on the hierarchy store, once it has returned
HierReturned(fn) ==
    /\ IsSome(hier_call)
    /\ Unwrap(hier_call).fn = fn
    /\ Unwrap(hier_call).status = "returned"

\* the parent of a device as its description declares it (None without one)
ParentOf(store, ref) ==
    LET dev == get_device(store, ref)
    IN IF IsSome(dev) /\ IsSome(Unwrap(dev).description)
       THEN Unwrap(Unwrap(dev).description).parent ELSE None

\* whether the device at parent lists id among its children; without a description it
\* lists none
ListsChild(store, parent, id) ==
    LET dev == get_device(store, parent)
    IN IsSome(dev) /\ IsSome(Unwrap(dev).description)
           /\ id \in Unwrap(Unwrap(dev).description).children

\* orphan status as stated: a parent is declared and it is missing, or does not list the
\* device, or lists it, declares a parent itself and is orphaned (hops bounds the chain)
RECURSIVE Orphaned(_, _, _)
Orphaned(store, ref, hops) ==
    /\ IsSome(ParentOf(store, ref))
    /\ LET parent == [domain |-> ref.domain, id |-> Unwrap(ParentOf(store, ref))]
       IN \/ ~contains_device(store, parent)
          \/ ~ListsChild(store, parent, ref.id)
          \/ /\ ListsChild(store, parent, ref.id)
             /\ IsSome(ParentOf(store, parent))
             /\ hops > 0
             /\ Orphaned(store, parent, hops - 1)

\* C17: is_orphaned(device) is true iff the description declares a parent and the parent
\* is not in the store (same domain), or does not list the device among its children (a
\* parent without a description lists none), or lists it, declares a parent itself and
\* is orphaned; without a description or a declared parent a device is not orphaned.
C17_OrphanStatus ==
    HierReturned("is_orphaned") =>
        Unwrap(hier_call).result
            = Some(Orphaned(hier_store, Unwrap(hier_call).device, StackFrames))

\* what is_orphaned returns where it differs: a parent that holds no description
OrphanedDiffersOnly ==
    HierReturned("is_orphaned") =>
        LET c == Unwrap(hier_call)
            parent == [domain |-> c.frame.domain, id |-> Unwrap(ParentOf(hier_store, c.frame))]
        IN Unwrap(hier_call).result # Some(Orphaned(hier_store, c.device, StackFrames)) =>
               /\ IsSome(ParentOf(hier_store, c.frame))
               /\ contains_device(hier_store, parent)
               /\ ~IsSome(Unwrap(get_device(hier_store, parent)).description)
               /\ c.result = Some(FALSE)

\* C18: is_orphaned terminates and returns a result for every store, parent cycles
\* included: no call aborts and every call that runs returns.
C18_IsOrphanedTerminates ==
    /\ [](HierStatus # "aborted")
    /\ (HierStatus = "running" ~> HierStatus = "returned")

NodeHolds(query, node_id, node_desc) ==
    IsSome(query.node) => node_match_query(Unwrap(query.node), node_id, node_desc)
PropertyHolds(query, prop_id, property_desc) ==
    IsSome(query.property) =>
        property_match_query(Unwrap(query.property), prop_id, property_desc)

\* C20: match_query(domain, id, desc) returns exactly the property refs (domain, id, n, p)
\* of nodes n and properties p of desc for which the domain condition, the device query,
\* the node query on n and the property query on p all hold, an absent level holding
\* always; nothing is returned when the domain or the device level fails.
C20_MatchQueryLevels ==
    IsSome(query_call) =>
        LET c == Unwrap(query_call)
            nodes == c.device_desc.nodes
            upper == domain_matches(c.query, c.domain)
                         /\ device_matches(c.query, c.id, c.device_desc)
            expected ==
                UNION {{PropertyRefNew(c.domain, c.id, n, p) :
                           p \in {x \in DOMAIN nodes[n].properties :
                                     /\ upper
                                     /\ NodeHolds(c.query, n, nodes[n])
                                     /\ PropertyHolds(c.query, x, nodes[n].properties[x])}} :
                       n \in DOMAIN nodes}
        IN /\ Range(c.refs) = expected
           /\ Len(c.refs) = Cardinality(expected)
           /\ ~upper => c.refs = <<>>
           /\ \A r \in Range(c.refs) :
                  /\ r.device = [domain |-> c.domain, id |-> c.id]
                  /\ NodeHolds(c.query, r.pointer.node, nodes[r.pointer.node])

C20_Witness ==
    /\ IsSome(query_call)
    /\ LET c == Unwrap(query_call)
       IN /\ IsSome(c.query.domain) /\ IsSome(c.query.device)
          /\ IsSome(c.query.node) /\ IsSome(c.query.property)
          /\ c.device_desc = QueryDescA
          /\ Range(c.refs) = {PropertyRefNew("homie", "device-1", "node-1", "prop-1"),
                              PropertyRefNew("homie", "device-1", "node-1", "prop-2")}
          /\ ~NodeHolds(c.query, "node-2", QueryDescA.nodes["node-2"])
          /\ PropertyHolds(c.query, "prop-1", QueryDescA.nodes["node-2"].properties["prop-1"])

\* the last call on the materialized query
MatCalled(fn) == IsSome(mat_call) /\ Unwrap(mat_call).fn = fn

\* the refs of a set that belong to one device
RefsOf(refs, domain, id) == {r \in refs : r.device = [domain |-> domain, id |-> id]}

\* what the query matches on a description, as a set (the same for every iteration order)
MatchSet(query, domain, id, device_desc) ==
    UNION {Range(match_query(query, domain, id, device_desc, no, po)) :
              no \in Orders(NodeIds), po \in Orders(PropIds)}

\* C21: after add_materialized(domain, id, desc) the members belonging to that device are
\* exactly query.match_query(domain, id, desc); a second call with the same arguments
\* changes nothing; no entry the device had before that the new description does not
\* match stays.
C21_AddMaterialized ==
    MatCalled("add_materialized") =>
        LET c == Unwrap(mat_call)
            q == Unwrap(mat_query)
            desc == Unwrap(c.device_desc)
            fresh == MatchSet(q, c.domain, c.id, desc)
        IN /\ RefsOf(mat_refs, c.domain, c.id) = fresh
           /\ \A no \in Orders(NodeIds), po \in Orders(PropIds) :
                  add_materialized(mat_refs, q, c.domain, c.id, desc, no, po) = mat_refs
           /\ \A r \in RefsOf(c.before, c.domain, c.id) : r \notin fresh => r \notin mat_refs

C21_Witness ==
    /\ MatCalled("add_materialized")
    /\ LET c == Unwrap(mat_call)
       IN /\ IsSome(c.prev) /\ Unwrap(c.prev).fn = "add_materialized"
          /\ Unwrap(c.prev).domain = c.domain /\ Unwrap(c.prev).id = c.id
          /\ Unwrap(c.prev).device_desc # c.device_desc
          /\ RefsOf(c.before, c.domain, c.id) \ mat_refs # {}
          /\ RefsOf(mat_refs, c.domain, c.id) # {}

\* C22: remove_materialized(domain, id, desc) removes exactly the refs of
\* query.match_query(domain, id, desc); directly after add_materialized with the same
\* arguments it leaves no ref of that device, while with another description than the
\* one added it can leave some; match_query(prop_ref) tells membership and changes
\* nothing.
C22_RemoveMaterialized ==
    /\ MatCalled("remove_materialized") =>
        LET c == Unwrap(mat_call)
            gone == MatchSet(Unwrap(mat_query), c.domain, c.id, Unwrap(c.device_desc))
        IN /\ mat_refs = c.before \ gone
           /\ (IsSome(c.prev) /\ Unwrap(c.prev).fn = "add_materialized"
                   /\ Unwrap(c.prev).domain = c.domain /\ Unwrap(c.prev).id = c.id
                   /\ Unwrap(c.prev).device_desc = c.device_desc) =>
                  RefsOf(mat_refs, c.domain, c.id) = {}
    /\ MatCalled("match_query") =>
        LET c == Unwrap(mat_call)
        IN /\ c.found = (Unwrap(c.prop_ref) \in c.before)
           /\ mat_refs = c.before
    /\ \E q \in MatQueries, added \in QueryDescs, removed \in QueryDescs,
          no \in Orders(NodeIds), po \in Orders(PropIds) :
           removed # added /\
           RefsOf(remove_materialized(
                      add_materialized({}, q, "homie", "device-1", added, no, po),
                      q, "homie", "device-1", removed, no, po),
                  "homie", "device-1") # {}

C22_Witness ==
    /\ MatCalled("remove_materialized")
    /\ LET c == Unwrap(mat_call)
       IN /\ IsSome(c.prev) /\ Unwrap(c.prev).fn = "add_materialized"
          /\ Unwrap(c.prev).domain = c.domain /\ Unwrap(c.prev).id = c.id
          /\ Unwrap(c.prev).device_desc # c.device_desc
          /\ c.before \ mat_refs # {}
          /\ RefsOf(mat_refs, c.domain, c.id) # {}
          /\ mat_refs \ RefsOf(mat_refs, c.domain, c.id) # {}

\* whether a mapping applies to a value: its condition is absent or holds
Applies(mapping, value) ==
    ~IsSome(mapping.from) \/ evaluate(Unwrap(mapping.from), "String", value)

\* C23: ValueMapping.map_to returns Mapped(to) iff the condition is absent or holds and
\* Unmapped(value) otherwise; ValueMappingList.map_to returns the Mapped result of the
\* first mapping in declaration order that maps the value, so nothing after a mapping
\* without condition is selected, and Unmapped(value) when no mapping applies or the
\* list is empty.
C23_FirstMatchWins ==
    IsSome(map_call) =>
        LET c == Unwrap(map_call)
            applying == {i \in 1..Len(c.list) : Applies(c.list[i], c.value)}
            first == CHOOSE i \in applying : \A j \in applying : i <= j
        IN /\ \A i \in 1..Len(c.list) :
                  mapping_map_to(c.list[i], "String", c.value)
                      = IF Applies(c.list[i], c.value)
                        THEN Mapped(c.list[i].to) ELSE Unmapped(c.value)
           /\ applying = {} => c.result = Unmapped(c.value)
           /\ applying # {} =>
                  /\ c.result = Mapped(c.list[first].to)
                  /\ \A i \in 1..Len(c.list) : ~IsSome(c.list[i].from) => first <= i

C23_Witness ==
    /\ IsSome(map_call)
    /\ LET c == Unwrap(map_call)
       IN /\ Len(c.list) = 2
          /\ ~IsSome(c.list[1].from)
          /\ IsSome(c.list[2].from) /\ Applies(c.list[2], c.value)
          /\ c.list[1].to # c.list[2].to
          /\ c.result = Mapped(c.list[1].to)

\* the last condition call was fn on an operator condition
CondCalled(fn) ==
    /\ IsSome(cond_call)
    /\ Unwrap(cond_call).fn = fn
    /\ Unwrap(cond_call).cond.kind = "Operator"

\* the operators that compare by order
OrderOperators == {"Greater", "Less", "GreaterOrEqual", "LessOrEqual"}

\* the operand is a single value
IsSingle(operand) == IsSome(operand) /\ Unwrap(operand).set = "Single"

\* the candidates an operand names: its single value or the values of its set
Candidates(operand) ==
    IF ~IsSome(operand) THEN {}
    ELSE IF Unwrap(operand).set = "Single" THEN {Unwrap(operand).value}
    ELSE Range(Unwrap(operand).values)

C25_VectorIncludes ==
    CondCalled("evaluate") /\ Unwrap(cond_call).ty = "Vec" =>
        LET c == Unwrap(cond_call)
            v == Unwrap(c.value)
            op == c.cond.operator
            operand == c.cond.value
            shared == \E candidate \in Candidates(operand) :
                          Range(candidate) \cap Range(v) # {}
        IN /\ op = "IncludesAny" => c.result = (IsSome(operand) /\ shared)
           /\ op = "IncludesNone" =>
                  /\ c.result = (IsSome(operand) /\ ~shared)
                  /\ IsSome(operand) =>
                         c.result = ~evaluate(Operator("IncludesAny", operand), "Vec", v)
                  /\ ~IsSome(operand) =>
                         evaluate(Operator("IncludesAny", operand), "Vec", v) = FALSE

C25_Witness ==
    /\ CondCalled("evaluate")
    /\ LET c == Unwrap(cond_call)
       IN /\ c.ty = "Vec" /\ c.cond.operator = "IncludesAny"
          /\ c.cond.value = Some(Multiple(<<(<<"child1", "child2">>), (<<"child3">>)>>))
          /\ c.value = Some(<<"child1", "child4">>)
          /\ c.result = TRUE

\* C26: evaluate_option with IsEmpty holds iff the value is absent and with Exists iff
\* it is present, whatever the operand of the condition; MatchAlways holds for absent
\* and present values; every other operator, every literal and every pattern is false
\* on an absent value.
C26_EvaluateOption ==
    IsSome(cond_call) /\ Unwrap(cond_call).fn = "evaluate_option" =>
        LET c == Unwrap(cond_call)
            operator == c.cond.kind = "Operator"
        IN /\ operator /\ c.cond.operator = "IsEmpty" => c.result = ~IsSome(c.value)
           /\ operator /\ c.cond.operator = "Exists" => c.result = IsSome(c.value)
           /\ operator /\ c.cond.operator = "MatchAlways" => c.result = TRUE
           /\ /\ ~IsSome(c.value)
              /\ operator => c.cond.operator \notin {"IsEmpty", "Exists", "MatchAlways"}
              => c.result = FALSE

C26_Witness ==
    /\ CondCalled("evaluate_option")
    /\ LET c == Unwrap(cond_call)
       IN /\ c.cond.operator = "IsEmpty"
          /\ IsSingle(c.cond.value)
          /\ ~IsSome(c.value)
          /\ c.result = TRUE

\* C27: every event delivered to the target is the most recent event sent before
\* its quiet period elapsed: no later event was sent within DebounceDuration of it
\* (a superseded event is never delivered), it is delivered no earlier than a full
\* quiet period after it was sent, and the deliveries are of different events, in
\* the order sent (a burst yields at most one delivery).
C27_DebounceSafety ==
    \A k \in 1..Len(deb_delivered) :
        LET d == deb_delivered[k]
            quiet == deb_sent[d.event] + DebounceDuration
        IN /\ d.time >= quiet
           /\ \A later \in (d.event + 1)..d.sends : deb_sent[later] >= quiet
           /\ \A j \in 1..(k - 1) : deb_delivered[j].event < d.event

\* C28: once the sends have ended the most recent event is eventually delivered,
\* also when the DebouncedSender is dropped before the quiet period has elapsed.  A
\* task that has returned delivers nothing any more, so when the task has returned
\* the most recent event has been delivered.
C28_DebounceLiveness ==
    deb_pc = "stopped" /\ deb_sent # <<>> =>
        \E k \in 1..Len(deb_delivered) : deb_delivered[k].event = Len(deb_sent)

\* the events delivered, and how often event t was
DeliveredCount(t) == Cardinality({k \in 1..Len(del_delivered) : del_delivered[k].event = t})

\* the state of the task of the n-th schedule call
DelayedState(t) == IF t <= Len(del_tasks) THEN del_tasks[t].state ELSE "unscheduled"

C30_Multiplexer ==
    mux_call.status = "returned" =>
        IF mux_call.variant = "Timeout"
        THEN /\ mux_call.after = mux_call.before
             /\ ~mux_call.early
        ELSE /\ mux_call.variant \in MuxChannels
             /\ mux_call.before[mux_call.variant] # <<>>
             /\ mux_call.event = Head(mux_call.before[mux_call.variant])
             /\ mux_call.after =
                    [mux_call.before EXCEPT
                        ![mux_call.variant] = Tail(mux_call.before[mux_call.variant])]

\* C33: when a query has a format condition, a property whose format is Empty is
\* matched as one with an absent format value: it is among the references returned
\* iff it is returned without the format condition and the condition holds on None
\* (so IsEmpty and MatchAlways keep it, the other conditions drop it).
C33_EmptyFormat ==
    IsSome(query_call) =>
        LET c == Unwrap(query_call)
            q == c.query
        IN  (IsSome(q.property) /\ IsSome(Unwrap(q.property).format)) =>
                LET pq == Unwrap(q.property)
                    without == [q EXCEPT !.property = Some([pq EXCEPT !.format = None])]
                    others == Range(match_query(without, c.domain, c.id, c.device_desc,
                                                AnOrder(NodeIds),
                                                AnOrder(PropIds)))
                IN  \A node_id \in DOMAIN c.device_desc.nodes :
                        \A prop_id \in DOMAIN c.device_desc.nodes[node_id].properties :
                            c.device_desc.nodes[node_id].properties[prop_id].format.kind
                                    = "Empty" =>
                                LET prop_ref == PropertyRefNew(c.domain, c.id, node_id,
                                                               prop_id)
                                IN  prop_ref \in Range(c.refs)
                                        <=> /\ prop_ref \in others
                                            /\ evaluate_option(Unwrap(pq.format), "String",
                                                               None)

\* the number of times x occurs in a vector
Occurrences(vec, x) == Cardinality({i \in 1..Len(vec) : vec[i] = x})

\* one vector is a permutation of the other
IsPermutation(a, b) ==
    /\ Len(a) = Len(b)
    /\ \A x \in Range(a) \cup Range(b) : Occurrences(a, x) = Occurrences(b, x)

\* C32: Equal on a vector value holds iff some candidate of the operand is a
\* permutation of the value (the same elements with the same multiplicities), and
\* NotEqual with an operand present is its negation.
C32_VectorEqual ==
    (CondCalled("evaluate") /\ Unwrap(cond_call).ty = "Vec") =>
        LET c == Unwrap(cond_call)
            v == Unwrap(c.value)
            equal == \E candidate \in Candidates(c.cond.value) : IsPermutation(candidate, v)
        IN  /\ c.cond.operator = "Equal" => (c.result <=> equal)
            /\ (c.cond.operator = "NotEqual" /\ IsSome(c.cond.value)) =>
                   (c.result <=> ~equal)

\* C40: on a present value the two entry points agree: evaluate_option(Some(v)) gives
\* the result of evaluate(v) for every condition and every value, scalar or vector;
\* Exists holds and IsEmpty fails on a present value under both.
C40_OptionAgrees ==
    (IsSome(cond_call) /\ IsSome(Unwrap(cond_call).value)) =>
        LET c == Unwrap(cond_call)
            v == Unwrap(c.value)
        IN  /\ c.fn = "evaluate_option" => c.result = evaluate(c.cond, c.ty, v)
            /\ c.fn = "evaluate" => c.result = evaluate_option(c.cond, c.ty, Some(v))
            /\ (c.cond.kind = "Operator" /\ c.cond.operator = "Exists") => c.result
            /\ (c.cond.kind = "Operator" /\ c.cond.operator = "IsEmpty") => ~c.result

\* C39: add_materialized(domain, id, desc) changes membership only for the property
\* references of the device (domain, id): a reference of any other device, also of a
\* device with the same id in another domain, is a member after the call iff it was
\* one before.
C39_AddMaterializedFrame ==
    MatCalled("add_materialized") =>
        LET c == Unwrap(mat_call)
        IN  \A prop_ref \in c.before \cup mat_refs :
                prop_ref.device # [domain |-> c.domain, id |-> c.id] =>
                    (prop_ref \in mat_refs <=> prop_ref \in c.before)

\* C34: abort returns true iff a scheduled task was still running and was aborted by
\* the call: false without a handle (a fresh sender, a second abort in a row) and
\* false when the task scheduled before has already sent its event and finished.
C34_AbortResult ==
    \A k \in 1..Len(del_aborts) :
        del_aborts[k].returned <=> (del_aborts[k].task # 0 /\ ~del_aborts[k].delivered)

\* C31: a device status message and a description message never prune device state:
\* the value entries and the alerts of the device are as they were before the
\* message, also the entries of properties the new description no longer has, and
\* every other device is as it was; a value equal to a retained entry that the
\* description in the store describes as retained is then reported as no change.
C31_NoPruning ==
    (IsMsg("DeviceState") \/ IsMsg("DeviceDescription")) =>
        LET d == Unwrap(msg).device
            old == get_device(pre, d)
            new == get_device(devices, d)
        IN  /\ OthersKept(d)
            /\ IsSome(old) =>
                   /\ IsSome(new)
                   /\ Unwrap(new).prop_values = Unwrap(old).prop_values
                   /\ Unwrap(new).alerts = Unwrap(old).alerts
                   /\ \A p \in DOMAIN Unwrap(old).prop_values, raw \in Payloads :
                          LET desc == Unwrap(new).description
                              prop_ref == [device |-> d, pointer |-> p]
                              value == [kind |-> "PropertyValue", property |-> prop_ref,
                                        value |-> raw]
                          IN  (/\ IsSome(desc)
                               /\ p \in DOMAIN Unwrap(desc).props
                               /\ Unwrap(desc).props[p].retained
                               /\ IsSome(Unwrap(old).prop_values[p].value)
                               /\ HomieValueParse(raw, Unwrap(desc).props[p])
                                      = Unwrap(old).prop_values[p].value)
                                  => handle_event(value, devices, 0) = Ok(devices, None, <<>>)

\* a description without the property humidity replaces one that has it, and the
\* value stored for humidity is still there
C31_Witness ==
    /\ IsMsg("DeviceDescription")
    /\ Returned(Some([kind |-> "DeviceDescriptionChanged", device |-> Unwrap(msg).device]))
    /\ LET d == Unwrap(msg).device
       IN  /\ PropQ \notin DOMAIN Unwrap(msg).description.props
           /\ PropQ \in DOMAIN Unwrap(get_device(devices, d)).prop_values
           /\ Unwrap(get_device(devices, d)).description = Some(Unwrap(msg).description)

\* the six kinds of message handle_event has an arm for
HandledKinds ==
    {"DeviceState", "DeviceDescription", "PropertyValue", "PropertyTarget", "DeviceAlert",
     "DeviceRemoval"}

\* the device a message is addressed to, if it names one
Addressee(m) ==
    IF m.kind \in {"PropertyValue", "PropertyTarget"} THEN Some(m.property.device)
    ELSE IF m.kind \in HandledKinds THEN Some(m.device)
    ELSE None

\* the number of devices in a store
DeviceCount(store) == Cardinality({d \in DeviceRefs : contains_device(store, d)})

\* C37: only a device status message creates a device and only a removal message
\* deletes one.  A description, value, target or alert message for a device that is
\* not in the store leaves the store as it was; a message of another kind than the
\* six handled is returned as Unhandled(message) with no store change and no
\* transport call; the number of devices changes by plus one on status messages and
\* by minus one on removal messages only.
C37_CreationAndDeletion ==
    IsSome(msg) =>
        LET m == Unwrap(msg)
            to == Addressee(m)
        IN  /\ (/\ m.kind \in HandledKinds \ {"DeviceState", "DeviceRemoval"}
                /\ ~contains_device(pre, Unwrap(to))) => devices = pre
            /\ m.kind \notin HandledKinds =>
                   /\ Returned(Some([kind |-> "Unhandled", event |-> m]))
                   /\ devices = pre
                   /\ calls = <<>>
            /\ DeviceCount(devices) # DeviceCount(pre) =>
                   \/ m.kind = "DeviceState" /\ DeviceCount(devices) = DeviceCount(pre) + 1
                   \/ m.kind = "DeviceRemoval" /\ DeviceCount(devices) = DeviceCount(pre) - 1
            /\ \A d \in DeviceRefs :
                   /\ (contains_device(devices, d) /\ ~contains_device(pre, d)) =>
                          m.kind = "DeviceState" /\ m.device = d
                   /\ (contains_device(pre, d) /\ ~contains_device(devices, d)) =>
                          m.kind = "DeviceRemoval" /\ m.device = d

\* an alert for a device that is not in the store, while another device is
C37_Witness ==
    /\ IsMsg("DeviceAlert")
    /\ Unwrap(msg).alert_msg # ""
    /\ ~contains_device(pre, Unwrap(msg).device)
    /\ DeviceCount(pre) = 1
    /\ devices = pre
    /\ Returned(None)

\* ------------------------------- the engine with its subscriptions on record
\* the subscriptions after one transport call: a successful subscribe adds its
\* topics, a successful unsubscribe removes them, a failed call counts as not made
AfterCall(t, call) ==
    IF ~call.ok THEN t
    ELSE CASE call.op = "subscribe_device" ->
                  [t EXCEPT !.dev_subs = @ \cup Topics(call.op, call.device, call.desc)]
           [] call.op = "unsubscribe_device" ->
                  [t EXCEPT !.dev_subs = @ \ Topics(call.op, call.device, call.desc)]
           [] call.op = "subscribe_props" ->
                  [t EXCEPT !.prop_subs = @ \cup Topics(call.op, call.device, call.desc)]
           [] call.op = "unsubscribe_props" ->
                  [t EXCEPT !.prop_subs = @ \ Topics(call.op, call.device, call.desc)]

RECURSIVE AfterCalls(_, _)
AfterCalls(t, cs) ==
    IF cs = <<>> THEN t ELSE AfterCalls(AfterCall(t, Head(cs)), Tail(cs))

\* the kind of the action a handle_event returned ("" for none)
ActionKind(res) == IF IsSome(res.action) THEN Unwrap(res.action).kind ELSE ""

\* the record after handle_event(m, devs) gave out: the subscriptions in force,
\* whether a transport call has failed, whether this call returned Ok, and the
\* actions emitted.  A device that enters the store is announced if NewDevice was
\* returned for it, a description that enters the store is described if
\* DeviceDescriptionChanged was returned for it.
TrackStep(t, devs, m, out) ==
    LET to == Addressee(m)
        d == Unwrap(to)
        was == IsSome(to) /\ contains_device(devs, d)
        is == IsSome(to) /\ contains_device(out.devices, d)
        kind == ActionKind(out.result)
        subs == AfterCalls(t, out.calls)
        seen == [subs EXCEPT !.failed = @ \/ \E i \in 1..Len(out.calls) : ~out.calls[i].ok,
                             !.last_ok = out.result.ok]
    IN  IF ~was /\ is
        THEN [seen EXCEPT !.announced = IF kind = "NewDevice" THEN @ \cup {d} ELSE @ \ {d}]
        ELSE IF was /\ ~is
        THEN [seen EXCEPT !.announced = @ \ {d}, !.described = @ \ {d}]
        ELSE IF /\ was /\ is
                /\ out.devices[d.domain][d.id].description # devs[d.domain][d.id].description
        THEN [seen EXCEPT !.described = IF kind = "DeviceDescriptionChanged"
                                        THEN @ \cup {d} ELSE @ \ {d}]
        ELSE seen

\* the record of removals after handle_event(m, devs) gave out.  A device that leaves
\* the store is remembered with its values and alerts.  A device that enters the
\* store has seen no description, value or alert message yet (fresh_*), until such a
\* message changes the store.
TrackRemoval(t, devs, m, out) ==
    LET to == Addressee(m)
        d == Unwrap(to)
        was == IsSome(to) /\ contains_device(devs, d)
        is == IsSome(to) /\ contains_device(out.devices, d)
        old == devs[d.domain][d.id]
        new == out.devices[d.domain][d.id]
    IN  IF ~was /\ is
        THEN [t EXCEPT
                 !.fresh_desc = @ \cup {d},
                 !.fresh_values = @ \cup {[device |-> d, pointer |-> p] : p \in PropPointers},
                 !.fresh_alerts = @ \cup {[device |-> d, alert_id |-> a] : a \in AlertIds}]
        ELSE IF was /\ ~is
        THEN [t EXCEPT
                 !.removed[d] = Some([prop_values |-> old.prop_values,
                                      alerts |-> old.alerts]),
                 !.fresh_desc = @ \ {d},
                 !.fresh_values = {r \in @ : r.device # d},
                 !.fresh_alerts = {r \in @ : r.device # d}]
        ELSE IF was /\ is /\ new # old
        THEN CASE m.kind = "DeviceDescription" -> [t EXCEPT !.fresh_desc = @ \ {d}]
               [] m.kind = "PropertyValue" -> [t EXCEPT !.fresh_values = @ \ {m.property}]
               [] m.kind = "DeviceAlert" ->
                      [t EXCEPT
                          !.fresh_alerts = @ \ {[device |-> d, alert_id |-> m.alert_id]}]
               [] OTHER -> t
        ELSE t

\* the store and the record after the engine has handled a sequence of messages,
\* no transport call failing
RECURSIVE Replay(_, _, _)
Replay(events, devs, t) ==
    IF events = <<>> THEN [devices |-> devs, track |-> t]
    ELSE LET out == handle_event(Head(events), devs, 0)
         IN Replay(Tail(events), out.devices, TrackStep(t, devs, Head(events), out))

\* the messages that discover the first device with a description, a value and an
\* alert
FirstDevice == [domain |-> DomainOf(1), id |-> IdOf(1)]
Discovered ==
    <<[kind |-> "DeviceState", device |-> FirstDevice, state |-> "ready"],
      [kind |-> "DeviceDescription", device |-> FirstDevice, description |-> DescC],
      [kind |-> "PropertyValue", property |-> [device |-> FirstDevice, pointer |-> PropP],
       value |-> "1"],
      [kind |-> "DeviceAlert", device |-> FirstDevice, alert_id |-> "battery",
       alert_msg |-> "low"]>>

\* the engine before any message, or after the messages of Discovered
TrackedInit ==
    /\ \E start \in {<<>>, Discovered} :
           /\ devices = Replay(start, EmptyMap, NoTrack).devices
           /\ track = Replay(start, EmptyMap, NoTrack).track
    /\ pre = EmptyMap
    /\ msg = None
    /\ result = NoResult
    /\ calls = <<>>
    /\ steps = 0
    /\ ValuesInit /\ AlertsInit /\ HierIdle /\ QueryIdle /\ AuxIdle

\* one handle_event call with its subscriptions and actions put on record
HandleEventTracked(m, f) ==
    /\ steps < MaxTrackedSteps
    /\ LET out == handle_event(m, devices, f)
       IN /\ f <= Len(out.calls)
          /\ devices' = out.devices
          /\ track' = TrackStep(track, devices, m, out)
    /\ steps' = steps + 1
    /\ UNCHANGED <<pre, msg, result, calls, valueVars, alertVars, hierVars, queryVars,
                   auxVars>>

TrackedNext == \E m \in Messages, f \in FailAt : HandleEventTracked(m, f)

SpecTracked == TrackedInit /\ [][TrackedNext]_vars

\* ------------------------------------ the engine with its removals on record
\* the engine after the messages of Discovered
RemovalInit ==
    /\ devices = Replay(Discovered, EmptyMap, NoTrack).devices
    /\ track = Replay(Discovered, EmptyMap, NoTrack).track
    /\ pre = EmptyMap
    /\ msg = None
    /\ result = NoResult
    /\ calls = <<>>
    /\ steps = 0
    /\ ValuesInit /\ AlertsInit /\ HierIdle /\ QueryIdle /\ AuxIdle

\* one handle_event call with the removals put on record
HandleEventRemoval(m, f) ==
    /\ steps < MaxSteps
    /\ LET out == handle_event(m, devices, f)
       IN /\ f <= Len(out.calls)
          /\ devices' = out.devices
          /\ result' = out.result
          /\ calls' = out.calls
          /\ track' = TrackRemoval(track, devices, m, out)
    /\ pre' = devices
    /\ msg' = Some(m)
    /\ steps' = steps + 1
    /\ UNCHANGED <<valueVars, alertVars, hierVars, queryVars, auxVars>>

\* the messages for the first device, and those of no device
FirstDeviceMessages == {m \in Messages : Addressee(m) \in {None, Some(FirstDevice)}}

RemovalNext == \E m \in FirstDeviceMessages, f \in FailAt : HandleEventRemoval(m, f)

SpecRemoval == RemovalInit /\ [][RemovalNext]_vars

\* the devices in the store, and the properties of the descriptions they hold
StoredDevices == {d \in DeviceRefs : contains_device(devices, d)}
DescribedProperties ==
    UNION {Topics("subscribe_props", d, Unwrap(get_device(devices, d)).description) :
              d \in {s \in StoredDevices :
                        IsSome(Unwrap(get_device(devices, s)).description)}}

\* C35: as long as no transport call has failed, the devices with a device
\* subscription in force are the devices in the store and the property subscriptions
\* in force are those of the properties of the descriptions held in the store, after
\* any sequence of messages (a new description sharing properties with the old one,
\* removals followed by new status messages).
C35_SubscriptionConsistency ==
    ~track.failed =>
        /\ track.dev_subs = StoredDevices
        /\ track.prop_subs = DescribedProperties

\* the description with temperature and humidity has been replaced by the one with
\* temperature only
C35_Witness ==
    /\ steps = 1
    /\ ~track.failed
    /\ contains_device(devices, FirstDevice)
    /\ Unwrap(get_device(devices, FirstDevice)).description = Some(DescA)
    /\ track.prop_subs = {[device |-> FirstDevice, pointer |-> PropP]}
    /\ track.dev_subs = {FirstDevice}

\* C36: discovery is never lost to a transport failure.  Whether or not calls have
\* failed before, once a handle_event has returned Ok (the message that failed was
\* delivered again, say) every device in the store has a device subscription in
\* force and was announced by NewDevice since it entered the store, and every
\* description in the store has its property subscriptions in force and was
\* announced by DeviceDescriptionChanged.
C36_DiscoveryNotLost ==
    track.last_ok =>
        /\ \A d \in StoredDevices : d \in track.dev_subs /\ d \in track.announced
        /\ DescribedProperties \subseteq track.prop_subs
        /\ \A d \in StoredDevices :
               IsSome(Unwrap(get_device(devices, d)).description) => d \in track.described

\* one step of the engine on a device that was removed before
RemovedDeviceStep ==
    LET m == Unwrap(msg')
        d == Unwrap(Addressee(m))
        first_ok == calls' # <<>> /\ calls'[1].ok
        desc == Unwrap(get_device(devices, d)).description
    IN  (IsSome(msg') /\ IsSome(Addressee(m))) =>
            /\ (m.kind = "DeviceRemoval" /\ first_ok) => ~contains_device(devices', d)
            /\ IsSome(track.removed[d]) =>
                   /\ (m.kind = "DeviceState" /\ ~contains_device(devices, d)) =>
                          /\ get_device(devices', d) = Some(NewDevice(d, m.state))
                          /\ Len(calls') = 1 /\ calls'[1].op = "subscribe_device"
                          /\ first_ok =>
                                 result' = [ok |-> TRUE, error |-> "none",
                                            action |-> Some([kind |-> "NewDevice",
                                                             device |-> d,
                                                             status |-> m.state])]
                   /\ (m.kind = "DeviceDescription" /\ d \in track.fresh_desc) =>
                          /\ Len(calls') = 1
                          /\ calls'[1].op = "subscribe_props"
                          /\ calls'[1].desc = Some(m.description)
                   /\ (/\ m.kind = "PropertyValue"
                       /\ m.property \in track.fresh_values
                       /\ contains_device(devices, d)
                       /\ IsSome(desc)
                       /\ m.property.pointer \in DOMAIN Unwrap(desc).props
                       /\ Unwrap(desc).props[m.property.pointer].retained
                       /\ IsSome(HomieValueParse(m.value,
                                                 Unwrap(desc).props[m.property.pointer]))) =>
                          result' =
                              [ok |-> TRUE, error |-> "none",
                               action |->
                                   Some([kind |-> "DevicePropertyValueChanged",
                                         prop |-> m.property, from |-> None,
                                         to |-> Unwrap(HomieValueParse(m.value,
                                                   Unwrap(desc).props[m.property.pointer]))])]
                   /\ (/\ m.kind = "DeviceAlert"
                       /\ m.alert_msg # ""
                       /\ [device |-> d, alert_id |-> m.alert_id] \in track.fresh_alerts) =>
                          result' = [ok |-> TRUE, error |-> "none",
                                     action |-> Some([kind |-> "DeviceAlert", device |-> d,
                                                      alert_id |-> m.alert_id,
                                                      alert |-> m.alert_msg])]

\* C38: device state does not survive removal.  A removal message whose
\* unsubscribe-from-device succeeds takes the device out of the store; the status
\* message that follows for the same device creates it anew (no description, no
\* values, no alerts) and is reported as NewDevice; the first description after that
\* is subscribed to with no unsubscribe before, the first value of a retained
\* property is reported as changed from None and the first alert as a new
\* DeviceAlert, whatever the device held before it was removed.
C38_StateDoesNotSurviveRemoval == [][RemovedDeviceStep]_vars

\* the first device, removed while it held the value 1 for temperature, is back and
\* the value 1 has just been reported as changed from None
C38_Witness ==
    /\ IsMsg("PropertyValue")
    /\ LET prop_ref == [device |-> FirstDevice, pointer |-> PropP]
       IN  /\ Unwrap(msg).property = prop_ref
           /\ IsSome(track.removed[FirstDevice])
           /\ PropP \in DOMAIN Unwrap(track.removed[FirstDevice]).prop_values
           /\ Unwrap(track.removed[FirstDevice]).prop_values[PropP].value = Some(1)
           /\ Returned(Some([kind |-> "DevicePropertyValueChanged", prop |-> prop_ref,
                             from |-> None, to |-> 1]))

====
